---- MODULE Spec2Model ----
(***************************************************************************)
(* Import and categorization pipeline of sankash:                          *)
(*   sankash/services/import_service.py   (imported ids, duplicate filter, *)
(*                                         import_transactions)            *)
(*   sankash/utils/duplicate_detection.py (find_duplicates)                *)
(*   sankash/services/rule_service.py     (rule engine)                    *)
(*   sankash/services/transaction_service.py (store reads and updates)     *)
(*                                                                         *)
(* Text values (payee, notes, rule values, imported ids) are sequences of  *)
(* one-character strings, so that formatting, concatenation, substring     *)
(* tests and number parsing are computed and not assumed.                  *)
(***************************************************************************)
EXTENDS Integers, Sequences, FiniteSets, TLC

VARIABLES transactions,    \* table transactions, row i has id i
          rules,           \* table rules, row i has id i
          import_history,  \* table import_history, row i has id i
          result,          \* outcome of the last service call
          nops,            \* number of service calls made so far
          ev,              \* input and output of one evaluate_rule call
          fd               \* input and output of one filter_duplicate_transactions call

vars == <<transactions, rules, import_history, result, nops, ev, fd>>

----------------------------------------------------------------------------
(* Bounds of the model *)

MaxOps == 3        \* service calls per behaviour
MaxRules == 2      \* stored rules
MaxConds == 2      \* conditions per rule in the evaluate_rule universe
MaxBatch == 2      \* rows per frame in the duplicate-filter universe
MaxFileRows == 3   \* rows per file in the add_imported_ids universe

(* limit=100_000 passed to get_transactions by the services *)
QueryLimit == 100000
(* head(limit) of test_rule, default limit *)
TestRuleLimit == 100

----------------------------------------------------------------------------
(* Null values of the store *)

Null == <<"<null>">>     \* SQL NULL / Python None in a text column
NullInt == -1            \* SQL NULL / Python None in an integer column

----------------------------------------------------------------------------
(* Text helpers: Python str methods and number formatting/parsing *)

Digits == <<"0", "1", "2", "3", "4", "5", "6", "7", "8", "9">>

IsDigit(c) == \E i \in 1..10 : Digits[i] = c

DigitVal(c) == (CHOOSE i \in 1..10 : Digits[i] = c) - 1

AllDigits(s) == \A i \in 1..Len(s) : IsDigit(s[i])

RECURSIVE NumVal(_)
NumVal(s) ==
    IF Len(s) = 0 THEN 0
    ELSE 10 * NumVal(SubSeq(s, 1, Len(s) - 1)) + DigitVal(s[Len(s)])

RECURSIVE NatStr(_)
NatStr(n) ==
    IF n < 10 THEN <<Digits[n + 1]>>
    ELSE NatStr(n \div 10) \o <<Digits[(n % 10) + 1]>>

(* str(int) *)
IntStr(n) == IF n < 0 THEN <<"-">> \o NatStr(0 - n) ELSE NatStr(n)

(* str(float) of a whole-valued float: -10.0 -> "-10.0" *)
FloatStr(a) == IntStr(a) \o <<".", "0">>

(* str(datetime.date): ISO form; dates of the model are days of 2024-01 *)
DateStr(d) ==
    <<"2", "0", "2", "4", "-", "0", "1", "-">>
        \o (IF d < 10 THEN <<"0">> ELSE <<>>) \o NatStr(d)

Upper26 == <<"A", "B", "C", "D", "E", "F", "G", "H", "I", "J", "K", "L", "M",
             "N", "O", "P", "Q", "R", "S", "T", "U", "V", "W", "X", "Y", "Z">>

Lower26 == <<"a", "b", "c", "d", "e", "f", "g", "h", "i", "j", "k", "l", "m",
             "n", "o", "p", "q", "r", "s", "t", "u", "v", "w", "x", "y", "z">>

LowerChar(c) ==
    IF \E i \in 1..26 : Upper26[i] = c
    THEN Lower26[CHOOSE i \in 1..26 : Upper26[i] = c]
    ELSE c

(* str.lower() *)
Lower(s) == [i \in 1..Len(s) |-> LowerChar(s[i])]

(* Python "sub in s" *)
Contains(sub, s) ==
    \E i \in 0..(Len(s) - Len(sub)) : SubSeq(s, i + 1, i + Len(sub)) = sub

Pow10(k) == IF k = 0 THEN 1 ELSE IF k = 1 THEN 10 ELSE IF k = 2 THEN 100 ELSE 1000

DotPos(s) == IF \E i \in 1..Len(s) : s[i] = "."
             THEN CHOOSE i \in 1..Len(s) : s[i] = "." /\ \A j \in 1..(i - 1) : s[j] # "."
             ELSE 0

(* float(text) for plain decimal texts [sign] digits [. digits]; ok = FALSE *)
(* stands for ValueError. The value is num / 10^scale.                      *)
ParseFloat(s) ==
    LET neg  == Len(s) > 0 /\ s[1] = "-"
        sgn  == Len(s) > 0 /\ (s[1] = "-" \/ s[1] = "+")
        body == IF sgn THEN SubSeq(s, 2, Len(s)) ELSE s
        dot  == DotPos(body)
        ip   == IF dot = 0 THEN body ELSE SubSeq(body, 1, dot - 1)
        fp   == IF dot = 0 THEN <<>> ELSE SubSeq(body, dot + 1, Len(body))
        good == /\ AllDigits(ip) /\ AllDigits(fp)
                /\ Len(ip) + Len(fp) > 0
                /\ Len(fp) <= 3
        mag  == NumVal(ip) * Pow10(Len(fp)) + NumVal(fp)
    IN  IF good
        THEN [ok |-> TRUE, num |-> IF neg THEN 0 - mag ELSE mag, scale |-> Len(fp)]
        ELSE [ok |-> FALSE, num |-> 0, scale |-> 0]

FloatLess(x, y) == x.num * Pow10(y.scale) < y.num * Pow10(x.scale)

(* int(text) for texts [sign] digits; ok = FALSE stands for ValueError *)
ParseInt(s) ==
    LET neg  == Len(s) > 0 /\ s[1] = "-"
        sgn  == Len(s) > 0 /\ (s[1] = "-" \/ s[1] = "+")
        body == IF sgn THEN SubSeq(s, 2, Len(s)) ELSE s
    IN  IF Len(body) > 0 /\ AllDigits(body)
        THEN [ok |-> TRUE, val |-> IF neg THEN 0 - NumVal(body) ELSE NumVal(body)]
        ELSE [ok |-> FALSE, val |-> 0]

----------------------------------------------------------------------------
(* Normalizer: converters/bank_converters.py, parse_csv_to_dataframe        *)
(*                                                                          *)
(* A raw file is [readable, meta, columns, rows]: meta lines before the     *)
(* header line, the column names of the header line, and the data lines as  *)
(* sequences of cells, one per column. A cell is a text or Null: read_csv   *)
(* reads an empty field as null.                                            *)

SkipRowsDeutscheBank == 7
SkipRowsIng == 13

Positions(s, ch) == {i \in 1..Len(s) : s[i] = ch}

Min(S) == CHOOSE x \in S : \A y \in S : x <= y
Max(S) == CHOOSE x \in S : \A y \in S : x >= y

(* the three parts of a text around its two separators *)
Parts3(s, ch) ==
    LET p1 == Min(Positions(s, ch))
        p2 == Max(Positions(s, ch))
    IN  <<SubSeq(s, 1, p1 - 1), SubSeq(s, p1 + 1, p2 - 1), SubSeq(s, p2 + 1, Len(s))>>

(* variant: the date filter lets every non-null text pass *)
DateShape_any_text(s) == s # Null

(* str.contains(r"^\d{1,2}\.\d{1,2}\.\d{4}$"); null for a null cell, which *)
(* filter() drops like false                                                *)
DateShape(s) ==
    /\ s # Null
    /\ Cardinality(Positions(s, ".")) = 2
    /\ LET p == Parts3(s, ".")
       IN  /\ Len(p[1]) \in 1..2 /\ AllDigits(p[1])
           /\ Len(p[2]) \in 1..2 /\ AllDigits(p[2])
           /\ Len(p[3]) = 4 /\ AllDigits(p[3])

DaysIn(month, year) ==
    IF month = 2
    THEN (IF year % 4 = 0 /\ (year % 100 # 0 \/ year % 400 = 0) THEN 29 ELSE 28)
    ELSE IF month \in {4, 6, 9, 11} THEN 30 ELSE 31

(* a calendar date as the number the model uses for it: the day for a date  *)
(* of 2024-01, which is where every date of the inputs lies                  *)
DateNumber(year, month, day) == (year - 2024) * 10000 + (month - 1) * 100 + day

ValidDate(year, month, day) ==
    /\ year >= 1
    /\ month \in 1..12
    /\ day >= 1 /\ day <= DaysIn(month, year)

(* str.strptime(pl.Date, "%d.%m.%Y") on one text; ok = FALSE is the failed  *)
(* conversion that the strict call raises on                                *)
StrpDMY(s) ==
    IF Cardinality(Positions(s, ".")) # 2 THEN [ok |-> FALSE, date |-> 0]
    ELSE LET p == Parts3(s, ".")
         IN  IF /\ Len(p[1]) \in 1..2 /\ AllDigits(p[1])
                /\ Len(p[2]) \in 1..2 /\ AllDigits(p[2])
                /\ Len(p[3]) = 4 /\ AllDigits(p[3])
                /\ ValidDate(NumVal(p[3]), NumVal(p[2]), NumVal(p[1]))
             THEN [ok |-> TRUE, date |-> DateNumber(NumVal(p[3]), NumVal(p[2]), NumVal(p[1]))]
             ELSE [ok |-> FALSE, date |-> 0]

(* str.strptime(pl.Date, format="%Y-%m-%d") on one text *)
StrpYMD(s) ==
    IF Cardinality(Positions(s, "-")) # 2 THEN [ok |-> FALSE, date |-> 0]
    ELSE LET p == Parts3(s, "-")
         IN  IF /\ Len(p[1]) = 4 /\ AllDigits(p[1])
                /\ Len(p[2]) \in 1..2 /\ AllDigits(p[2])
                /\ Len(p[3]) \in 1..2 /\ AllDigits(p[3])
                /\ ValidDate(NumVal(p[1]), NumVal(p[2]), NumVal(p[3]))
             THEN [ok |-> TRUE, date |-> DateNumber(NumVal(p[1]), NumVal(p[2]), NumVal(p[3]))]
             ELSE [ok |-> FALSE, date |-> 0]

(* str.replace_all(r"\.", "") *)
RemoveDots(s) ==
    LET keep(c) == c # "."
    IN  SelectSeq(s, keep)

(* str.replace(",", "."): the first comma only *)
ReplaceFirstComma(s) ==
    IF Positions(s, ",") = {} THEN s
    ELSE [i \in 1..Len(s) |-> IF i = Min(Positions(s, ",")) THEN "." ELSE s[i]]

(* cast(pl.Float64) of one text; ok = FALSE is the failed conversion that   *)
(* the strict cast raises on. Amounts of the model are whole numbers: no    *)
(* input text has a fraction other than zero.                               *)
CastFloat(s) ==
    LET f == ParseFloat(s)
    IN  IF f.ok THEN [ok |-> TRUE, amount |-> f.num \div Pow10(f.scale)]
        ELSE [ok |-> FALSE, amount |-> 0]

(* the value of a column in a data line; null when the column is missing    *)
Cell(file, row, name) ==
    IF \E k \in 1..Len(file.columns) : file.columns[k] = name /\ k <= Len(row)
    THEN row[CHOOSE k \in 1..Len(file.columns) : file.columns[k] = name /\ k <= Len(row)]
    ELSE Null

(* pl.read_csv(file_path, skip_rows = n, ...): the line after the skipped   *)
(* lines is taken as the header. When that is not the file's header line,   *)
(* the frame has none of the file's column names.                           *)
read_csv(file, skip_rows) ==
    IF ~file.readable THEN [error |-> "FileNotFoundError", columns |-> <<>>, rows |-> <<>>]
    ELSE IF skip_rows = file.meta
    THEN [error |-> "none", columns |-> file.columns, rows |-> file.rows]
    ELSE [error |-> "none", columns |-> <<>>, rows |-> <<>>]

Unknown == <<"U", "n", "k", "n", "o", "w", "n">>

(* read_csv infers a column whose cells are all plain numbers as numeric    *)
IsNumberText(s) == s # Null /\ ParseFloat(s).ok

NumericColumn(cells) ==
    /\ \E i \in 1..Len(cells) : cells[i] # Null
    /\ \A i \in 1..Len(cells) : cells[i] = Null \/ IsNumberText(cells[i])

Perms(n) == {f \in [1..n -> 1..n] : \A i, j \in 1..n : f[i] = f[j] => i = j}

(* sort("date") without maintain_order: rows of equal date in any order *)
SortedByDate(rows) ==
    {[i \in 1..Len(rows) |-> rows[f[i]]] : f \in
        {g \in Perms(Len(rows)) :
            \A i, j \in 1..Len(rows) : i < j => rows[g[i]].date <= rows[g[j]].date}}

(* the steps the two bank converters share, on the selected and renamed     *)
(* columns: date filter, null filter, date and amount conversion, payee and *)
(* notes defaults, sort                                                     *)
ConvertSelected(selected) ==
    LET shaped(r) == DateShape(r.date)
        present(r) == r.date # Null /\ r.amount # Null
        kept == SelectSeq(SelectSeq(selected, shaped), present)
        amount_text(r) == ReplaceFirstComma(RemoveDots(r.amount))
    IN  IF \E i \in 1..Len(kept) : ~StrpDMY(kept[i].date).ok
        THEN [error |-> "InvalidOperationError", frames |-> {}]
        ELSE IF \E i \in 1..Len(kept) : ~CastFloat(amount_text(kept[i])).ok
        THEN [error |-> "InvalidOperationError", frames |-> {}]
        ELSE [error |-> "none",
              frames |-> SortedByDate(
                  [i \in 1..Len(kept) |->
                      [date |-> StrpDMY(kept[i].date).date,
                       amount |-> CastFloat(amount_text(kept[i])).amount,
                       payee |-> IF kept[i].payee = Null \/ kept[i].payee = <<>>
                                 THEN Unknown ELSE kept[i].payee,
                       notes |-> IF kept[i].notes = Null THEN <<>> ELSE kept[i].notes]])]

HasColumns(frame, names) ==
    \A n \in names : \E k \in 1..Len(frame.columns) : frame.columns[k] = n

convert_deutsche_bank_csv(file) ==
    LET df == read_csv(file, SkipRowsDeutscheBank)
    IN  IF df.error # "none" THEN [error |-> df.error, frames |-> {}]
        ELSE IF ~HasColumns(df, {"Buchungstag", "Begünstigter / Auftraggeber",
                                 "Verwendungszweck", "Betrag"})
        THEN [error |-> "ColumnNotFoundError", frames |-> {}]
        ELSE ConvertSelected(
                 [i \in 1..Len(df.rows) |->
                     [date |-> Cell(df, df.rows[i], "Buchungstag"),
                      payee |-> Cell(df, df.rows[i], "Begünstigter / Auftraggeber"),
                      notes |-> Cell(df, df.rows[i], "Verwendungszweck"),
                      amount |-> Cell(df, df.rows[i], "Betrag")]])

(* notes are Buchungstext + " - " + Verwendungszweck, null when either is;  *)
(* the amount column has no cast to text before the .str calls, which fail   *)
(* on a column that read_csv inferred as numeric                            *)
convert_ing_csv(file) ==
    LET df == read_csv(file, SkipRowsIng)
        text(i) == Cell(df, df.rows[i], "Buchungstext")
        purpose(i) == Cell(df, df.rows[i], "Verwendungszweck")
    IN  IF df.error # "none" THEN [error |-> df.error, frames |-> {}]
        ELSE IF ~HasColumns(df, {"Buchung", "Auftraggeber/Empfänger", "Buchungstext",
                                 "Verwendungszweck", "Betrag"})
        THEN [error |-> "ColumnNotFoundError", frames |-> {}]
        ELSE IF NumericColumn([i \in 1..Len(df.rows) |-> Cell(df, df.rows[i], "Betrag")])
        THEN [error |-> "SchemaError", frames |-> {}]
        ELSE ConvertSelected(
                 [i \in 1..Len(df.rows) |->
                     [date |-> Cell(df, df.rows[i], "Buchung"),
                      payee |-> Cell(df, df.rows[i], "Auftraggeber/Empfänger"),
                      notes |-> IF text(i) = Null \/ purpose(i) = Null THEN Null
                                ELSE text(i) \o <<" ", "-", " ">> \o purpose(i),
                      amount |-> Cell(df, df.rows[i], "Betrag")]])

(* parse_csv_to_dataframe with its default column names; a null date or     *)
(* amount stays null, every other cell must convert                         *)
parse_csv_to_dataframe(file) ==
    LET df == read_csv(file, 0)
        date(i) == Cell(df, df.rows[i], "date")
        amount(i) == Cell(df, df.rows[i], "amount")
    IN  IF df.error # "none" THEN [error |-> df.error, frames |-> {}]
        ELSE IF ~HasColumns(df, {"date", "payee", "amount"})
        THEN [error |-> "ValueError", frames |-> {}]
        ELSE IF \E i \in 1..Len(df.rows) : date(i) # Null /\ ~StrpYMD(date(i)).ok
        THEN [error |-> "InvalidOperationError", frames |-> {}]
        ELSE IF \E i \in 1..Len(df.rows) : amount(i) # Null /\ ~CastFloat(amount(i)).ok
        THEN [error |-> "InvalidOperationError", frames |-> {}]
        ELSE [error |-> "none",
              frames |-> {[i \in 1..Len(df.rows) |->
                  [date |-> IF date(i) = Null THEN Null ELSE StrpYMD(date(i)).date,
                   amount |-> IF amount(i) = Null THEN Null ELSE CastFloat(amount(i)).amount,
                   payee |-> Cell(df, df.rows[i], "payee"),
                   notes |-> Cell(df, df.rows[i], "notes")]]}]

(* get_converter(bank_format) and the call of the converter, or of          *)
(* parse_csv_to_dataframe for the standard format                           *)
normalize(file, bank_format) ==
    IF bank_format = "deutsche-bank" THEN convert_deutsche_bank_csv(file)
    ELSE IF bank_format = "ing" THEN convert_ing_csv(file)
    ELSE parse_csv_to_dataframe(file)

----------------------------------------------------------------------------
(* Imported-id generation: import_service.py *)

US == <<"_">>

(* hashlib.md5(data).hexdigest()[:8]: the digest is taken to be free of    *)
(* collisions, so it is represented by the text that is digested.           *)
Hash8(data) == data

(* variant: the occurrence index is left out of the digest text *)
create_imported_id_no_occurrence(transaction_date, amount, payee, notes, occurrence) ==
    LET data == DateStr(transaction_date) \o US \o FloatStr(amount) \o US
                    \o payee \o US \o notes
    IN  DateStr(transaction_date) \o US \o FloatStr(amount) \o US \o Hash8(data)

create_imported_id(transaction_date, amount, payee, notes, occurrence) ==
    LET data == DateStr(transaction_date) \o US \o FloatStr(amount) \o US
                    \o payee \o US \o notes \o US \o IntStr(occurrence)
        hash_suffix == Hash8(data)
    IN  DateStr(transaction_date) \o US \o FloatStr(amount) \o US \o hash_suffix

(* the group key of pl.cum_count("date").over("date","amount","payee","notes") *)
SameGroup(r1, r2) ==
    /\ r1.date = r2.date
    /\ r1.amount = r2.amount
    /\ r1.payee = r2.payee
    /\ r1.notes = r2.notes

(* variant: the occurrence is the position of the row in the file *)
Occurrence_row_index(df, i) == i - 1

(* cum_count(...).over(...) - 1 : rows of the same group that come earlier *)
Occurrence(df, i) == Cardinality({j \in 1..(i - 1) : SameGroup(df[j], df[i])})

(* row["notes"] or "" *)
NotesOrEmpty(notes) == IF notes = Null THEN <<>> ELSE notes

add_imported_ids(df) ==
    [i \in 1..Len(df) |->
        [date |-> df[i].date, amount |-> df[i].amount,
         payee |-> df[i].payee, notes |-> df[i].notes,
         imported_id |-> create_imported_id(df[i].date, df[i].amount, df[i].payee,
                                            NotesOrEmpty(df[i].notes),
                                            Occurrence(df, i))]]

transform_import_dataframe(df, account_id) ==
    LET with_ids == add_imported_ids(df)
    IN  [i \in 1..Len(with_ids) |->
            [date |-> with_ids[i].date, amount |-> with_ids[i].amount,
             payee |-> with_ids[i].payee, notes |-> with_ids[i].notes,
             imported_id |-> with_ids[i].imported_id,
             account_id |-> account_id]]

----------------------------------------------------------------------------
(* Store reads: transaction_service.get_transactions *)

Range(s) == {s[i] : i \in 1..Len(s)}

(* ORDER BY t.date DESC, t.id DESC *)
Before(t1, t2) == \/ t1.date > t2.date
                  \/ (t1.date = t2.date /\ t1.id > t2.id)

RECURSIVE OrderRows(_)
OrderRows(S) ==
    IF S = {} THEN <<>>
    ELSE LET first == CHOOSE t \in S : \A u \in S \ {t} : Before(t, u)
         IN  <<first>> \o OrderRows(S \ {first})

Head_n(s, n) == IF Len(s) <= n THEN s ELSE SubSeq(s, 1, n)

(* account_id = NullInt stands for account_id=None (no filter);            *)
(* categorized is the set of is_categorized values the filter lets pass.    *)
get_transactions(store, account_id, categorized, limit) ==
    LET rows == {t \in Range(store) :
                    /\ (account_id # NullInt => t.account_id = account_id)
                    /\ t.is_categorized \in categorized}
    IN  Head_n(OrderRows(rows), limit)

----------------------------------------------------------------------------
(* Duplicate filter: duplicate_detection.py, import_service.py *)

(* variant: only the first existing row is compared *)
find_duplicates_first_only(import_df, existing_df) ==
    IF Len(existing_df) = 0
    THEN <<>>
    ELSE LET import_ids == [i \in 1..Len(import_df) |-> import_df[i].imported_id]
             is_first(id) == id = existing_df[1].imported_id
         IN  SelectSeq(import_ids, is_first)

(* variant: the existing ids are read up to the first null *)
find_duplicates_stop_at_null(import_df, existing_df) ==
    IF Len(existing_df) = 0
    THEN <<>>
    ELSE LET existing_ids == {existing_df[k].imported_id : k \in
                                 {i \in 1..Len(existing_df) :
                                     \A j \in 1..i : existing_df[j].imported_id # Null}}
             import_ids == [i \in 1..Len(import_df) |-> import_df[i].imported_id]
             is_in(id) == id \in existing_ids
         IN  SelectSeq(import_ids, is_in)

find_duplicates(import_df, existing_df) ==
    IF Len(existing_df) = 0
    THEN <<>>
    ELSE LET existing_ids == {t.imported_id : t \in {u \in Range(existing_df) :
                                                       u.imported_id # Null}}
             import_ids == [i \in 1..Len(import_df) |-> import_df[i].imported_id]
             is_in(id) == id \in existing_ids
         IN  SelectSeq(import_ids, is_in)

(* variant: the new part is the whole batch *)
filter_duplicate_transactions_keep_all(import_df, existing_df) ==
    LET duplicates == Range(find_duplicates(import_df, existing_df))
        is_dup(c) == c.imported_id \in duplicates
    IN  [new_transactions |-> import_df,
         duplicate_transactions |-> SelectSeq(import_df, is_dup)]

filter_duplicate_transactions(import_df, existing_df) ==
    LET duplicates == Range(find_duplicates(import_df, existing_df))
        is_new(c) == c.imported_id \notin duplicates
        is_dup(c) == c.imported_id \in duplicates
    IN  [new_transactions |-> SelectSeq(import_df, is_new),
         duplicate_transactions |-> SelectSeq(import_df, is_dup)]

----------------------------------------------------------------------------
(* Rule engine: rule_service.py *)

(* variant: the except branch of the numeric operators returns True *)
create_condition_evaluator_except_true(condition, transaction) ==
    LET field == condition.field
        operator == condition.operator
        value == condition.value
        known == field \in {"payee", "amount", "notes"}
        field_value == CASE field = "payee" -> transaction.payee
                         [] field = "amount" -> FloatStr(transaction.amount)
                         [] field = "notes" -> NotesOrEmpty(transaction.notes)
                         [] OTHER -> <<>>
    IN  IF ~known THEN FALSE
        ELSE CASE operator = "contains" -> Contains(Lower(value), Lower(field_value))
               [] operator = "equals" -> Lower(value) = Lower(field_value)
               [] operator = "<" ->
                     IF ParseFloat(field_value).ok /\ ParseFloat(value).ok
                     THEN FloatLess(ParseFloat(field_value), ParseFloat(value))
                     ELSE TRUE
               [] operator = ">" ->
                     IF ParseFloat(field_value).ok /\ ParseFloat(value).ok
                     THEN FloatLess(ParseFloat(value), ParseFloat(field_value))
                     ELSE TRUE
               [] OTHER -> FALSE

(* the closure returned by create_condition_evaluator, applied to a transaction *)
create_condition_evaluator(condition, transaction) ==
    LET field == condition.field
        operator == condition.operator
        value == condition.value
        known == field \in {"payee", "amount", "notes"}
        field_value == CASE field = "payee" -> transaction.payee
                         [] field = "amount" -> FloatStr(transaction.amount)
                         [] field = "notes" -> NotesOrEmpty(transaction.notes)
                         [] OTHER -> <<>>
    IN  IF ~known THEN FALSE
        ELSE CASE operator = "contains" -> Contains(Lower(value), Lower(field_value))
               [] operator = "equals" -> Lower(value) = Lower(field_value)
               [] operator = "<" ->
                     IF ParseFloat(field_value).ok /\ ParseFloat(value).ok
                     THEN FloatLess(ParseFloat(field_value), ParseFloat(value))
                     ELSE FALSE
               [] operator = ">" ->
                     IF ParseFloat(field_value).ok /\ ParseFloat(value).ok
                     THEN FloatLess(ParseFloat(value), ParseFloat(field_value))
                     ELSE FALSE
               [] OTHER -> FALSE

(* any(evaluator(transaction) for evaluator in evaluators) *)
RECURSIVE AnyFrom(_, _, _)
AnyFrom(conditions, transaction, i) ==
    IF i > Len(conditions) THEN FALSE
    ELSE IF create_condition_evaluator(conditions[i], transaction) THEN TRUE
    ELSE AnyFrom(conditions, transaction, i + 1)

(* all(evaluator(transaction) for evaluator in evaluators) *)
RECURSIVE AllFrom(_, _, _)
AllFrom(conditions, transaction, i) ==
    IF i > Len(conditions) THEN TRUE
    ELSE IF ~create_condition_evaluator(conditions[i], transaction) THEN FALSE
    ELSE AllFrom(conditions, transaction, i + 1)

(* variant: "any" and "all" exchanged *)
evaluate_rule_swapped(rule, transaction) ==
    IF Len(rule.conditions) = 0 THEN FALSE
    ELSE IF rule.match_type = "any"
         THEN AllFrom(rule.conditions, transaction, 1)
         ELSE AnyFrom(rule.conditions, transaction, 1)

(* variant: without the guard on an empty condition list *)
evaluate_rule_no_guard(rule, transaction) ==
    IF rule.match_type = "any"
    THEN AnyFrom(rule.conditions, transaction, 1)
    ELSE AllFrom(rule.conditions, transaction, 1)

evaluate_rule(rule, transaction) ==
    IF Len(rule.conditions) = 0 THEN FALSE
    ELSE IF rule.match_type = "any"
         THEN AnyFrom(rule.conditions, transaction, 1)
         ELSE AllFrom(rule.conditions, transaction, 1)

(* SELECT * FROM rules WHERE is_active = TRUE ORDER BY priority DESC, id *)
RuleBefore(r1, r2) == \/ r1.priority > r2.priority
                      \/ (r1.priority = r2.priority /\ r1.id < r2.id)

RECURSIVE OrderRules(_)
OrderRules(S) ==
    IF S = {} THEN <<>>
    ELSE LET first == CHOOSE r \in S : \A q \in S \ {r} : RuleBefore(r, q)
         IN  <<first>> \o OrderRules(S \ {first})

(* variant: the is_active filter is left out *)
get_rules_unfiltered(rule_store, active_only) == OrderRules(Range(rule_store))

get_rules(rule_store, active_only) ==
    OrderRules({r \in Range(rule_store) : active_only => r.is_active})

(* transaction_service.update_transaction_category *)
update_transaction_category(store, transaction_id, category) ==
    [store EXCEPT ![transaction_id].category = category,
                  ![transaction_id].is_categorized = TRUE]

(* transaction_service.mark_as_transfer *)
mark_as_transfer(store, transaction_id, transfer_account_id) ==
    [store EXCEPT ![transaction_id].is_transfer = TRUE,
                  ![transaction_id].transfer_account_id = transfer_account_id]

(* apply_rule_actions from action k on; raised = TRUE when int(action.value) *)
(* raises ValueError, which leaves the loop with the earlier writes done     *)
RECURSIVE ActionsFrom(_, _, _, _)
ActionsFrom(store, actions, transaction_id, k) ==
    IF k > Len(actions) THEN [store |-> store, raised |-> FALSE]
    ELSE IF actions[k].action_type = "set_category"
         THEN ActionsFrom(update_transaction_category(store, transaction_id, actions[k].value),
                          actions, transaction_id, k + 1)
    ELSE IF actions[k].action_type = "mark_transfer"
         THEN IF ParseInt(actions[k].value).ok
              THEN ActionsFrom(mark_as_transfer(store, transaction_id,
                                                ParseInt(actions[k].value).val),
                               actions, transaction_id, k + 1)
              ELSE [store |-> store, raised |-> TRUE]
    ELSE ActionsFrom(store, actions, transaction_id, k + 1)

apply_rule_actions(store, rule, transaction_id) ==
    ActionsFrom(store, rule.actions, transaction_id, 1)

(* index of the first rule of the list that matches, 0 when none does *)
RECURSIVE FirstMatch(_, _, _)
FirstMatch(rule_list, transaction, i) ==
    IF i > Len(rule_list) THEN 0
    ELSE IF evaluate_rule(rule_list[i], transaction) THEN i
    ELSE FirstMatch(rule_list, transaction, i + 1)

(* the loops of apply_rules_to_uncategorized over the loaded work list *)
RECURSIVE ApplyFrom(_, _, _, _, _)
ApplyFrom(store, rule_list, work, i, categorized_count) ==
    IF i > Len(work)
    THEN [store |-> store, count |-> categorized_count, raised |-> FALSE]
    ELSE LET m == FirstMatch(rule_list, work[i], 1)
         IN  IF m = 0
             THEN ApplyFrom(store, rule_list, work, i + 1, categorized_count)
             ELSE LET done == apply_rule_actions(store, rule_list[m], work[i].id)
                  IN  IF done.raised
                      THEN [store |-> done.store, count |-> categorized_count,
                            raised |-> TRUE]
                      ELSE ApplyFrom(done.store, rule_list, work, i + 1,
                                     categorized_count + 1)

(* variant: the work list is loaded without the is_categorized filter *)
apply_rules_to_all(store, rule_store) ==
    LET rule_list == get_rules(rule_store, TRUE)
        work == get_transactions(store, NullInt, BOOLEAN, QueryLimit)
    IN  IF Len(rule_list) = 0
        THEN [store |-> store, count |-> 0, raised |-> FALSE]
        ELSE IF Len(work) = 0
        THEN [store |-> store, count |-> 0, raised |-> FALSE]
        ELSE ApplyFrom(store, rule_list, work, 1, 0)

apply_rules_to_uncategorized(store, rule_store) ==
    LET rule_list == get_rules(rule_store, TRUE)
        work == get_transactions(store, NullInt, {FALSE}, QueryLimit)
    IN  IF Len(rule_list) = 0
        THEN [store |-> store, count |-> 0, raised |-> FALSE]
        ELSE IF Len(work) = 0
        THEN [store |-> store, count |-> 0, raised |-> FALSE]
        ELSE ApplyFrom(store, rule_list, work, 1, 0)

(* variant: the preview matches on the first condition only instead of     *)
(* calling evaluate_rule                                                    *)
test_rule_own_matcher(store, rule, limit) ==
    LET transactions_df == Head_n(get_transactions(store, NullInt, BOOLEAN, QueryLimit), limit)
        matches(t) == /\ Len(rule.conditions) > 0
                      /\ create_condition_evaluator(rule.conditions[1], t)
    IN  SelectSeq(transactions_df, matches)

(* test_rule: the matching rows among the first `limit` rows *)
test_rule(store, rule, limit) ==
    LET transactions_df == Head_n(get_transactions(store, NullInt, BOOLEAN, QueryLimit), limit)
        matches(t) == evaluate_rule(rule, t)
    IN  SelectSeq(transactions_df, matches)

count_matching_transactions(store, rule) ==
    LET transactions_df == get_transactions(store, NullInt, BOOLEAN, QueryLimit)
    IN  Cardinality({i \in 1..Len(transactions_df) : evaluate_rule(rule, transactions_df[i])})

(* the names bound in the globals of rule_service.py: its imports and the  *)
(* functions it defines                                                     *)
ModuleNames ==
    {"json", "Callable", "pl", "execute_command", "execute_query",
     "Rule", "RuleCondition", "Transaction",
     "get_rules", "parse_rule_from_row", "create_condition_evaluator", "evaluate_rule",
     "apply_rule_actions", "apply_rules_to_uncategorized", "test_rule", "create_rule",
     "update_rule", "delete_rule", "count_matching_transactions",
     "create_rule_from_transaction"}

(* rule_service.create_rule: INSERT ... RETURNING id *)
create_rule(rule_store, rule) ==
    [rules |-> Append(rule_store, [rule EXCEPT !.id = Len(rule_store) + 1]),
     id |-> Len(rule_store) + 1]

(* create_rule_from_transaction: error = "ValueError" for a transaction    *)
(* without category, "NameError" when a name the body uses is not bound in  *)
(* the module; the arguments of Rule(...) are evaluated before create_rule  *)
create_rule_from_transaction(rule_store, transaction, priority) ==
    IF transaction.category = Null \/ transaction.category = <<>>
    THEN [rules |-> rule_store, id |-> NullInt, error |-> "ValueError"]
    ELSE IF ~({"Rule", "RuleCondition", "RuleAction", "create_rule"} \subseteq ModuleNames)
    THEN [rules |-> rule_store, id |-> NullInt, error |-> "NameError"]
    ELSE LET rule == [id |-> NullInt, priority |-> priority, is_active |-> TRUE,
                      match_type |-> "any",
                      conditions |-> <<[field |-> "payee", operator |-> "contains",
                                        value |-> transaction.payee]>>,
                      actions |-> <<[action_type |-> "set_category",
                                     value |-> transaction.category]>>]
         IN  [rules |-> create_rule(rule_store, rule).rules,
              id |-> create_rule(rule_store, rule).id,
              error |-> "none"]

----------------------------------------------------------------------------
(* Import orchestration: import_service.import_transactions *)

(* pl.col("notes").fill_null("") *)
fill_null(notes) == IF notes = Null THEN <<>> ELSE notes

(* variant: the INSERT leaves out the imported_id column *)
InsertRows_without_id(store, new_transactions, import_session_id) ==
    [i \in 1..Len(new_transactions) |->
        [id |-> Len(store) + i,
         account_id |-> new_transactions[i].account_id,
         date |-> new_transactions[i].date,
         payee |-> new_transactions[i].payee,
         notes |-> IF new_transactions[i].notes = Null THEN <<>> ELSE new_transactions[i].notes,
         amount |-> new_transactions[i].amount,
         category |-> Null,
         is_categorized |-> FALSE,
         is_transfer |-> FALSE,
         transfer_account_id |-> NullInt,
         imported_id |-> Null,
         import_session_id |-> import_session_id]]

(* the rows of the batch INSERT; columns not named by the statement take   *)
(* the defaults of the Transaction model                                    *)
InsertRows(store, new_transactions, import_session_id) ==
    [i \in 1..Len(new_transactions) |->
        [id |-> Len(store) + i,
         account_id |-> new_transactions[i].account_id,
         date |-> new_transactions[i].date,
         payee |-> new_transactions[i].payee,
         notes |-> fill_null(new_transactions[i].notes),
         amount |-> new_transactions[i].amount,
         category |-> Null,
         is_categorized |-> FALSE,
         is_transfer |-> FALSE,
         transfer_account_id |-> NullInt,
         imported_id |-> new_transactions[i].imported_id,
         import_session_id |-> import_session_id]]

(* import_history_service.calculate_file_hash: SHA-256 of the file, taken  *)
(* to be free of collisions and so represented by the content it digests    *)
calculate_file_hash(file) == file

(* import_history_service.create_import_history *)
create_import_history(history, record) ==
    Append(history, [record EXCEPT !.id = Len(history) + 1])

(* variant: the rows of the batch insert are taken back when the rule pass  *)
(* raises                                                                   *)
ImportOutcome_rolled_back(import_df, existing_df, parts, history1, insert_df, pass, import_session_id) ==
    [store |-> IF pass.raised
               THEN SubSeq(pass.store, 1, Len(pass.store) - Len(insert_df))
               ELSE pass.store,
     history |-> IF pass.raised THEN history1
                 ELSE [history1 EXCEPT ![import_session_id].categorized_count = pass.count],
     raised |-> pass.raised,
     import_df |-> import_df,
     existing_ids |-> {t.imported_id : t \in Range(existing_df)},
     new_transactions |-> parts.new_transactions,
     duplicate_transactions |-> parts.duplicate_transactions,
     total |-> Len(import_df),
     imported |-> Len(insert_df),
     duplicates |-> Len(parts.duplicate_transactions),
     categorized |-> IF pass.raised THEN NullInt ELSE pass.count,
     import_session_id |-> import_session_id]

(* the dictionary returned by import_transactions, with the store and the  *)
(* history it leaves behind; raised = TRUE when the rule pass raised, which *)
(* happens after the history record and the batch insert were committed     *)
ImportOutcome(import_df, existing_df, parts, history1, insert_df, pass, import_session_id) ==
    [store |-> pass.store,
     history |-> IF pass.raised THEN history1
                 ELSE [history1 EXCEPT ![import_session_id].categorized_count = pass.count],
     raised |-> pass.raised,
     import_df |-> import_df,
     existing_ids |-> {t.imported_id : t \in Range(existing_df)},
     new_transactions |-> parts.new_transactions,
     duplicate_transactions |-> parts.duplicate_transactions,
     total |-> Len(import_df),
     imported |-> Len(insert_df),
     duplicates |-> Len(parts.duplicate_transactions),
     categorized |-> IF pass.raised THEN NullInt ELSE pass.count,
     import_session_id |-> import_session_id]

(* the whole call: transform, snapshot, filter, history record, batch      *)
(* insert, rule pass over the store, history update                         *)
import_transactions(store, rule_store, history, file, account_id) ==
    LET import_df == transform_import_dataframe(file, account_id)
        existing_df == get_transactions(store, account_id, BOOLEAN, QueryLimit)
        parts == filter_duplicate_transactions(import_df, existing_df)
        import_session_id == Len(history) + 1
        history1 == create_import_history(history,
                        [id |-> NullInt, account_id |-> account_id,
                         total_count |-> Len(import_df),
                         imported_count |-> Len(parts.new_transactions),
                         duplicate_count |-> Len(parts.duplicate_transactions),
                         categorized_count |-> 0,
                         file_hash |-> calculate_file_hash(file)])
        insert_df == InsertRows(store, parts.new_transactions, import_session_id)
        pass == apply_rules_to_uncategorized(store \o insert_df, rule_store)
    IN  ImportOutcome(import_df, existing_df, parts, history1, insert_df, pass,
                      import_session_id)

(* the failed call: the exception of the parse step leaves import_         *)
(* transactions before anything is written                                  *)
ImportFailure(store, history, error) ==
    [store |-> store, history |-> history, raised |-> TRUE, error |-> error,
     file |-> <<>>]

(* variant: the history record is created before the file is parsed *)
import_file_history_first(store, rule_store, history, file, account_id, bank_format) ==
    LET parsed == normalize(file, bank_format)
        history1 == create_import_history(history,
                        [id |-> NullInt, account_id |-> account_id,
                         total_count |-> 0, imported_count |-> 0,
                         duplicate_count |-> 0, categorized_count |-> 0,
                         file_hash |-> <<>>])
    IN  IF parsed.error # "none"
        THEN {ImportFailure(store, history1, parsed.error)}
        ELSE {[error |-> "none", file |-> frame] @@
              import_transactions(store, rule_store, history, frame, account_id) :
                 frame \in parsed.frames}

(* import_transactions on a file of a bank format: the converter or the      *)
(* standard parser first, whose exception ends the call, then the steps      *)
(* above on the frame it returns. The outcomes are one per frame the         *)
(* converter can return.                                                     *)
import_file(store, rule_store, history, file, account_id, bank_format) ==
    LET parsed == normalize(file, bank_format)
    IN  IF parsed.error # "none"
        THEN {ImportFailure(store, history, parsed.error)}
        ELSE {[error |-> "none", file |-> frame] @@
              import_transactions(store, rule_store, history, frame, account_id) :
                 frame \in parsed.frames}

(* Stores of more rows than the queries' LIMIT. A counted store is a store  *)
(* whose entry k stands for n stored transactions that agree in every        *)
(* column the calls read, with ids that are neighbours in the order of the   *)
(* query; entries have different dates, so the rows of one entry are         *)
(* neighbours in ORDER BY t.date DESC, t.id DESC. The id of an entry is its   *)
(* index.                                                                    *)

(* LIMIT limit on ordered entries: whole entries while they fit, then the    *)
(* part of the next entry that fills the limit                               *)
RECURSIVE TakeRows(_, _)
TakeRows(entries, limit) ==
    IF Len(entries) = 0 \/ limit = 0 THEN <<>>
    ELSE IF Head(entries).n <= limit
    THEN <<Head(entries)>> \o TakeRows(Tail(entries), limit - Head(entries).n)
    ELSE <<[Head(entries) EXCEPT !.n = limit]>>

(* get_transactions on a counted store *)
get_transactions_counted(store, account_id, categorized, limit) ==
    LET rows == {t \in Range(store) :
                    /\ (account_id # NullInt => t.account_id = account_id)
                    /\ t.is_categorized \in categorized}
    IN  TakeRows(OrderRows(rows), limit)

(* the loops of apply_rules_to_uncategorized over a counted work list: the   *)
(* actions of the first matching rule are applied to the loaded rows of an   *)
(* entry; the rows of the entry that the query left out stay as they are     *)
RECURSIVE ApplyCountedFrom(_, _, _, _)
ApplyCountedFrom(store, rule_list, work, i) ==
    IF i > Len(work) THEN [store |-> store, raised |-> FALSE]
    ELSE LET m == FirstMatch(rule_list, work[i], 1)
             k == work[i].id
         IN  IF m = 0 THEN ApplyCountedFrom(store, rule_list, work, i + 1)
             ELSE LET done == apply_rule_actions(store, rule_list[m], k)
                  IN  IF done.raised THEN [store |-> done.store, raised |-> TRUE]
                      ELSE IF work[i].n = store[k].n
                      THEN ApplyCountedFrom(done.store, rule_list, work, i + 1)
                      ELSE ApplyCountedFrom(
                               Append([store EXCEPT ![k].n = @ - work[i].n],
                                      [done.store[k] EXCEPT !.n = work[i].n,
                                                            !.id = Len(store) + 1]),
                               rule_list, work, i + 1)

(* apply_rules_to_uncategorized on a counted store *)
apply_rules_to_uncategorized_counted(store, rule_store) ==
    LET rule_list == get_rules(rule_store, TRUE)
        work == get_transactions_counted(store, NullInt, {FALSE}, QueryLimit)
    IN  IF Len(rule_list) = 0
        THEN [store |-> store, raised |-> FALSE]
        ELSE IF Len(work) = 0
        THEN [store |-> store, raised |-> FALSE]
        ELSE ApplyCountedFrom(store, rule_list, work, 1)

(* import_transactions on a counted store: transform, snapshot, filter,     *)
(* batch insert (one entry of one row for each new transaction), rule pass   *)
import_transactions_counted(store, rule_store, file, account_id, import_session_id) ==
    LET import_df == transform_import_dataframe(file, account_id)
        existing_df == get_transactions_counted(store, account_id, BOOLEAN, QueryLimit)
        parts == filter_duplicate_transactions(import_df, existing_df)
        insert_df == InsertRows(store, parts.new_transactions, import_session_id)
        inserted == store \o [i \in 1..Len(insert_df) |-> [n |-> 1] @@ insert_df[i]]
        pass == apply_rules_to_uncategorized_counted(inserted, rule_store)
    IN  [store |-> pass.store, raised |-> pass.raised,
         inserted |-> inserted,
         existing_df |-> existing_df,
         new_transactions |-> parts.new_transactions,
         duplicate_transactions |-> parts.duplicate_transactions]

(* preview_import: limit: int = 10 *)
PreviewLimit == 10

(* [f.readline() for _ in range(3)]: the first three lines of the file, of   *)
(* the metadata lines, the header line and the data lines                   *)
FirstLines(file) ==
    Head_n([i \in 1..file.meta |-> <<"meta">>] \o <<file.columns>> \o file.rows, 3)

(* the handlers around the parse step of preview_import. The handler of the *)
(* parse exception reads the first lines and raises a ValueError whose       *)
(* message has them; that raise stands inside a try whose "except Exception" *)
(* catches it, as it catches the failure of open(), and raises a ValueError  *)
(* whose message has the parse error only. The outer handler puts that       *)
(* message behind "Preview failed for file ...".                            *)
PreviewFailure(file, parse_error) ==
    LET inner == IF file.readable
                 THEN [raised |-> "ValueError", error |-> parse_error,
                       first_lines |-> FirstLines(file)]
                 ELSE [raised |-> "FileNotFoundError", error |-> parse_error,
                       first_lines |-> <<>>]
        caught == [raised |-> "ValueError", error |-> inner.error, first_lines |-> <<>>]
    IN  [raised |-> "Exception", error |-> caught.error,
         first_lines |-> caught.first_lines]

(* variant: the preview is taken from an import of the file *)
preview_import_by_import(store, rule_store, history, file, account_id, bank_format, limit) ==
    {IF r.error # "none"
     THEN [store |-> store, history |-> history, raised |-> TRUE, error |-> r.error,
           first_lines |-> <<>>, rows |-> <<>>]
     ELSE [store |-> r.store, history |-> r.history, raised |-> FALSE, error |-> "none",
           first_lines |-> <<>>, rows |-> Head_n(r.import_df, limit)] :
        r \in import_file(store, rule_store, history, file, account_id, bank_format)}

(* preview_import: parse, transform, head(limit); the function has no        *)
(* database path and opens no connection, so the store and the history it    *)
(* leaves are the ones it found                                              *)
preview_import(store, rule_store, history, file, account_id, bank_format, limit) ==
    LET parsed == normalize(file, bank_format)
    IN  IF parsed.error # "none"
        THEN {[store |-> store, history |-> history, raised |-> TRUE,
               error |-> PreviewFailure(file, parsed.error).error,
               first_lines |-> PreviewFailure(file, parsed.error).first_lines,
               rows |-> <<>>]}
        ELSE {[store |-> store, history |-> history, raised |-> FALSE, error |-> "none",
               first_lines |-> <<>>,
               rows |-> Head_n(transform_import_dataframe(frame, account_id), limit)] :
                 frame \in parsed.frames}

----------------------------------------------------------------------------
(* Inputs of the model *)

Accounts == {1, 2}

(* Normalized rows. RowA and RowB differ in payee and notes but have the   *)
(* same text payee_notes; RowC has no notes.                                *)
RowA == [date |-> 1, amount |-> -10, payee |-> <<"A", "_">>, notes |-> Null]
RowB == [date |-> 1, amount |-> -10, payee |-> <<"A">>, notes |-> <<"_">>]
RowC == [date |-> 2, amount |-> -150, payee |-> <<"b">>, notes |-> Null]

(* Files as their normalized rows: one row, the same row twice, two rows   *)
(* with the same digest text, and two orders of an overlapping export       *)
Files == {<<RowA>>, <<RowA, RowA>>, <<RowA, RowB>>, <<RowC, RowA>>, <<RowA, RowC>>}

Cond(f, o, v) == [field |-> f, operator |-> o, value |-> v]
Act(a, v) == [action_type |-> a, value |-> v]
NewRule(p, active, mt, cs, as) ==
    [id |-> NullInt, priority |-> p, is_active |-> active, match_type |-> mt,
     conditions |-> cs, actions |-> as]

RuleFood == NewRule(5, TRUE, "any",
                    <<Cond("payee", "contains", <<"a">>)>>,
                    <<Act("set_category", <<"F">>)>>)
RuleShop == NewRule(10, TRUE, "any",
                    <<Cond("amount", "<", <<"-", "5", "0">>),
                      Cond("payee", "equals", <<"a", "_">>)>>,
                    <<Act("set_category", <<"S">>)>>)
RuleTransfer == NewRule(5, TRUE, "all",
                        <<Cond("notes", "contains", <<"_">>)>>,
                        <<Act("mark_transfer", <<"2">>)>>)
RuleEmpty == NewRule(10, TRUE, "all", <<>>,
                     <<Act("set_category", <<"X">>)>>)
RuleBadTarget == NewRule(5, TRUE, "any",
                         <<Cond("payee", "contains", <<"b">>)>>,
                         <<Act("set_category", <<"F">>), Act("mark_transfer", <<"x">>)>>)
RuleInactive == NewRule(20, FALSE, "any",
                        <<Cond("payee", "contains", <<"a">>)>>,
                        <<Act("set_category", <<"Z">>)>>)

(* priority arguments of create_rule_from_transaction: the default and one more *)
RulePriorities == {0, 20}

RulePool == {RuleFood, RuleShop, RuleTransfer, RuleEmpty, RuleBadTarget, RuleInactive}

NewTxn(acc, d, p, n, a, cat, is_cat) ==
    [id |-> NullInt, account_id |-> acc, date |-> d, payee |-> p, notes |-> n,
     amount |-> a, category |-> cat, is_categorized |-> is_cat, is_transfer |-> FALSE,
     transfer_account_id |-> NullInt, imported_id |-> Null, import_session_id |-> NullInt]

(* a transaction entered by hand, already categorized, without imported_id *)
ManualTxns == {NewTxn(1, 1, <<"A", "_">>, Null, -10, <<"M">>, TRUE)}

(* inputs of the evaluate_rule calls *)
EvalConds == {Cond("payee", "contains", <<"a", "l", "d", "i">>),
              Cond("amount", "<", <<"-", "5", "0">>),
              Cond("amount", ">", <<"-", "5", "0">>),
              Cond("amount", "<", <<"a">>),
              Cond("notes", "equals", <<"X">>),
              Cond("iban", "contains", <<>>)}

EvalCondLists == UNION {[1..n -> EvalConds] : n \in 0..MaxConds}

EvalRules == {NewRule(0, TRUE, mt, cs, <<>>) : mt \in {"all", "any"}, cs \in EvalCondLists}

EvalTxns == {NewTxn(1, 1, <<"A", "l", "d", "i">>, Null, -10, Null, FALSE),
             NewTxn(1, 1, <<"A", "l", "d", "i">>, <<"x">>, -150, Null, FALSE),
             NewTxn(1, 1, <<"L", "i", "d", "l">>, <<"x">>, -10, Null, FALSE),
             NewTxn(1, 1, <<"L", "i", "d", "l">>, Null, -150, Null, FALSE)}

(* inputs of the condition evaluator: every field, operator and value text *)
(* of a small pool, with an unknown field and an unknown operator           *)
CondFields == {"payee", "amount", "notes", "iban"}

CondOperators == {"contains", "equals", "<", ">", "!="}

CondValues == {<<"-", "1", "0", "0">>, <<"-", "5", "0", ".", "5">>, <<"a", "b", "c">>, <<>>}

CondTxns == {NewTxn(1, 1, <<"A", "l", "d", "i">>, Null, -150, Null, FALSE),
             NewTxn(1, 1, <<"-", "2", "0", "0">>, <<"a", "b", "c">>, -50, Null, FALSE),
             NewTxn(1, 1, <<"A", "B", "C">>, <<"7">>, -100, Null, FALSE)}

(* raw bank exports: the cells of a data line, and files of both bank      *)
(* formats built from them                                                  *)
RawDates == {<<"0", "1", ".", "0", "1", ".", "2", "0", "2", "4">>,
             <<"0", "2", ".", "0", "1", ".", "2", "0", "2", "4">>,
             <<"3", "1", ".", "0", "2", ".", "2", "0", "2", "4">>,
             <<"K", "o", "n", "t", "o", "s", "t", "a", "n", "d">>,
             Null}

RawAmounts == {<<"-", "1", "0", ",", "0", "0">>,
               <<"1", ".", "5", "0", "0", ",", "0", "0">>,
               <<"a", "b", "c">>,
               Null}

RawLine(d, p, n, a) == [date |-> d, payee |-> p, notes |-> n, amount |-> a]

RawLines == {RawLine(d, <<"A">>, Null, a) : d \in RawDates, a \in RawAmounts}

DeutscheBankColumns ==
    <<"Buchungstag", "Begünstigter / Auftraggeber", "Verwendungszweck", "Betrag">>

IngColumns ==
    <<"Buchung", "Auftraggeber/Empfänger", "Buchungstext", "Verwendungszweck", "Betrag">>

(* an export of the bank format with the given data lines *)
BankFile(bank_format, lines) ==
    IF bank_format = "deutsche-bank"
    THEN [readable |-> TRUE, meta |-> SkipRowsDeutscheBank, columns |-> DeutscheBankColumns,
          rows |-> [i \in 1..Len(lines) |->
                       <<lines[i].date, lines[i].payee, lines[i].notes, lines[i].amount>>]]
    ELSE [readable |-> TRUE, meta |-> SkipRowsIng, columns |-> IngColumns,
          rows |-> [i \in 1..Len(lines) |->
                       <<lines[i].date, lines[i].payee, <<"T">>, lines[i].notes,
                         lines[i].amount>>]]

BankFormats == {"deutsche-bank", "ing"}

(* a file of the standard format with the given rows; an empty notes field  *)
(* is a null cell                                                           *)
StandardColumns == <<"date", "payee", "amount", "notes">>

StandardCsv(rows) ==
    [readable |-> TRUE, meta |-> 0, columns |-> StandardColumns,
     rows |-> [i \in 1..Len(rows) |->
                  <<DateStr(rows[i].date), rows[i].payee, FloatStr(rows[i].amount),
                    IF rows[i].notes = <<>> THEN Null ELSE rows[i].notes>>]]

(* a Deutsche Bank export with one booking and the closing balance line *)
FileDeutscheBank ==
    BankFile("deutsche-bank",
             <<RawLine(<<"0", "2", ".", "0", "1", ".", "2", "0", "2", "4">>, <<"b">>, Null,
                       <<"-", "1", "5", "0", ",", "0", "0">>),
               RawLine(<<"K", "o", "n", "t", "o", "s", "t", "a", "n", "d">>, Null, Null,
                       <<"1", ".", "5", "0", "0", ",", "0", "0">>)>>)

(* an ING export whose amount does not read as a number *)
FileIngBadAmount ==
    BankFile("ing",
             <<RawLine(<<"0", "1", ".", "0", "1", ".", "2", "0", "2", "4">>, <<"A">>, Null,
                       <<"a", "b", "c">>)>>)

(* a standard file without the amount column *)
FileNoAmount ==
    [readable |-> TRUE, meta |-> 0, columns |-> <<"date", "payee", "notes">>,
     rows |-> <<<<DateStr(1), <<"A">>, Null>>>>]

(* the files of the import calls with the bank format they are imported as; *)
(* the last one is a Deutsche Bank export imported as an ING export         *)
ImportInputs ==
    {[file |-> StandardCsv(f), bank_format |-> "standard"] : f \in Files}
    \cup {[file |-> FileDeutscheBank, bank_format |-> "deutsche-bank"],
          [file |-> FileIngBadAmount, bank_format |-> "ing"],
          [file |-> FileNoAmount, bank_format |-> "standard"],
          [file |-> FileDeutscheBank, bank_format |-> "ing"]}

(* a path at which there is no file *)
FileMissing == [readable |-> FALSE, meta |-> 0, columns |-> <<>>, rows |-> <<>>]

PreviewInputs ==
    ImportInputs \cup {[file |-> FileMissing, bank_format |-> "standard"],
                       [file |-> FileMissing, bank_format |-> "ing"]}

(* counted stores: a row of an earlier import of the file <<RowA>>, and     *)
(* after it a number of newer transactions of other files                   *)
LargeCounts == {0, 1, QueryLimit - 1, QueryLimit, QueryLimit + 1}

OldRow(account_id, is_categorized) ==
    [InsertRows(<<>>, transform_import_dataframe(<<RowA>>, account_id), 1)[1]
        EXCEPT !.is_categorized = is_categorized,
               !.category = IF is_categorized THEN <<"M">> ELSE Null]

NewerRows(account_id, is_categorized, payee, n) ==
    [n |-> n] @@
    [NewTxn(account_id, 3, payee, <<>>, -20,
            IF is_categorized THEN <<"M">> ELSE Null, is_categorized)
        EXCEPT !.id = 2, !.imported_id = <<"o", "t", "h", "e", "r">>,
               !.import_session_id = 2]

LargeStores ==
    {<<[n |-> 1] @@ OldRow(a1, c1)>>
        \o (IF n = 0 THEN <<>> ELSE <<NewerRows(a2, c2, p, n)>>) :
       a1 \in Accounts, c1 \in BOOLEAN, a2 \in Accounts, c2 \in BOOLEAN,
       p \in {<<"z">>, <<"a">>}, n \in LargeCounts}

LargeRuleStores == {<<>>, <<[RuleFood EXCEPT !.id = 1]>>}

(* inputs of the add_imported_ids calls: files of up to MaxFileRows rows,   *)
(* and the orders in which a copy of the file can have them                  *)
RowD == [date |-> 1, amount |-> -150, payee |-> <<"A", "_">>, notes |-> Null]

IdFiles == UNION {[1..n -> {RowA, RowB, RowC, RowD}] : n \in 0..MaxFileRows}

Permuted(file, perm) == [i \in 1..Len(file) |-> file[perm[i]]]

(* inputs of the filter_duplicate_transactions calls: frames with an       *)
(* imported_id column, as in tests/test_utils/test_duplicate_detection.py   *)
DupIds == {<<"i", "d", "1">>, <<"i", "d", "2">>, <<"i", "d", "3">>}

IdRow(id) == [imported_id |-> id]

ImportFrames == UNION {[1..n -> {IdRow(id) : id \in DupIds}] : n \in 0..MaxBatch}

ExistingFrames ==
    UNION {[1..n -> {IdRow(id) : id \in DupIds \cup {Null, <<>>}}] : n \in 0..MaxBatch}

----------------------------------------------------------------------------
(* State machine of the service calls *)

NoResult ==
    [op |-> "none", raised |-> FALSE, account_id |-> NullInt, file |-> <<>>,
     import_df |-> <<>>, existing_ids |-> {},
     new_transactions |-> <<>>, duplicate_transactions |-> <<>>,
     total |-> 0, imported |-> 0, duplicates |-> 0, categorized |-> 0,
     import_session_id |-> NullInt, count |-> 0,
     error |-> "none", rule_id |-> NullInt, transaction_id |-> NullInt,
     readable |-> TRUE, first_lines |-> <<>>, preview |-> <<>>]

NoEval == [rule |-> NewRule(0, TRUE, "all", <<>>, <<>>),
           txn |-> NewTxn(1, 1, <<>>, Null, 0, Null, FALSE),
           done |-> FALSE, res |-> FALSE]

NoFilter == [import_df |-> <<>>, existing_df |-> <<>>, done |-> FALSE,
             new_transactions |-> <<>>, duplicate_transactions |-> <<>>]

Init ==
    /\ transactions = <<>>
    /\ rules = <<>>
    /\ import_history = <<>>
    /\ result = NoResult
    /\ nops = 0
    /\ ev = NoEval
    /\ fd = NoFilter

Import(file, bank_format, account_id) ==
    /\ nops < MaxOps
    /\ \E r \in import_file(transactions, rules, import_history, file, account_id,
                            bank_format) :
          /\ transactions' = r.store
          /\ import_history' = r.history
          /\ result' = IF r.error # "none"
                       THEN [NoResult EXCEPT !.op = "import", !.raised = TRUE,
                                             !.account_id = account_id,
                                             !.error = r.error]
                       ELSE
                        [NoResult EXCEPT
                           !.op = "import", !.raised = r.raised,
                           !.account_id = account_id, !.file = r.file,
                           !.import_df = r.import_df, !.existing_ids = r.existing_ids,
                           !.new_transactions = r.new_transactions,
                           !.duplicate_transactions = r.duplicate_transactions,
                           !.total = r.total, !.imported = r.imported,
                           !.duplicates = r.duplicates, !.categorized = r.categorized,
                           !.import_session_id = r.import_session_id]
    /\ nops' = nops + 1
    /\ UNCHANGED <<rules, ev, fd>>

(* import_service.preview_import *)
PreviewImport(file, bank_format, account_id) ==
    /\ nops < MaxOps
    /\ \E r \in preview_import(transactions, rules, import_history, file, account_id,
                               bank_format, PreviewLimit) :
          /\ transactions' = r.store
          /\ import_history' = r.history
          /\ result' = [NoResult EXCEPT !.op = "preview", !.raised = r.raised,
                                        !.account_id = account_id,
                                        !.error = r.error,
                                        !.readable = file.readable,
                                        !.first_lines = r.first_lines,
                                        !.preview = r.rows]
    /\ nops' = nops + 1
    /\ UNCHANGED <<rules, ev, fd>>

ApplyRules ==
    /\ nops < MaxOps
    /\ \E r \in {apply_rules_to_uncategorized(transactions, rules)} :
          /\ transactions' = r.store
          /\ result' = [NoResult EXCEPT !.op = "apply", !.raised = r.raised,
                                        !.count = IF r.raised THEN NullInt ELSE r.count]
    /\ nops' = nops + 1
    /\ UNCHANGED <<rules, import_history, ev, fd>>

(* rule_service.create_rule *)
CreateRule(rule) ==
    /\ nops < MaxOps
    /\ Len(rules) < MaxRules
    /\ rules' = create_rule(rules, rule).rules
    /\ result' = [NoResult EXCEPT !.op = "create_rule"]
    /\ nops' = nops + 1
    /\ UNCHANGED <<transactions, import_history, ev, fd>>

(* transaction_service.create_transaction *)
CreateTransaction(transaction) ==
    /\ nops < MaxOps
    /\ transactions' = Append(transactions,
                              [transaction EXCEPT !.id = Len(transactions) + 1])
    /\ result' = [NoResult EXCEPT !.op = "create_transaction"]
    /\ nops' = nops + 1
    /\ UNCHANGED <<rules, import_history, ev, fd>>

(* rule_service.create_rule_from_transaction on a stored transaction *)
CreateRuleFromTransaction(transaction, priority) ==
    /\ nops < MaxOps
    /\ Len(rules) < MaxRules
    /\ \E r \in {create_rule_from_transaction(rules, transaction, priority)} :
          /\ rules' = r.rules
          /\ result' = [NoResult EXCEPT !.op = "rule_from_transaction",
                                        !.raised = (r.error # "none"),
                                        !.error = r.error,
                                        !.rule_id = r.id,
                                        !.transaction_id = transaction.id]
    /\ nops' = nops + 1
    /\ UNCHANGED <<transactions, import_history, ev, fd>>

Next ==
    \/ \E input \in ImportInputs, account_id \in Accounts :
          Import(input.file, input.bank_format, account_id)
    \/ \E input \in PreviewInputs, account_id \in Accounts :
          PreviewImport(input.file, input.bank_format, account_id)
    \/ ApplyRules
    \/ \E rule \in RulePool : CreateRule(rule)
    \/ \E transaction \in ManualTxns : CreateTransaction(transaction)
    \/ \E transaction \in Range(transactions), priority \in RulePriorities :
          CreateRuleFromTransaction(transaction, priority)

Spec == Init /\ [][Next]_vars

(* One evaluate_rule call on an arbitrary rule and transaction *)
InitEval ==
    /\ transactions = <<>>
    /\ rules = <<>>
    /\ import_history = <<>>
    /\ result = NoResult
    /\ nops = 0
    /\ ev \in {[rule |-> r, txn |-> t, done |-> FALSE, res |-> FALSE] :
                  r \in EvalRules, t \in EvalTxns}
    /\ fd = NoFilter

Evaluate ==
    /\ ~ev.done
    /\ ev' = [ev EXCEPT !.done = TRUE, !.res = evaluate_rule(ev.rule, ev.txn)]
    /\ UNCHANGED <<transactions, rules, import_history, result, nops, fd>>

NextEval == Evaluate

SpecEval == InitEval /\ [][NextEval]_vars

(* One call of the evaluator made by create_condition_evaluator *)
InitCond ==
    /\ transactions = <<>>
    /\ rules = <<>>
    /\ import_history = <<>>
    /\ result = NoResult
    /\ nops = 0
    /\ ev \in {[condition |-> Cond(f, o, v), txn |-> t, done |-> FALSE, res |-> FALSE] :
                  f \in CondFields, o \in CondOperators, v \in CondValues, t \in CondTxns}
    /\ fd = NoFilter

EvaluateCondition ==
    /\ ~ev.done
    /\ ev' = [ev EXCEPT !.done = TRUE,
                        !.res = create_condition_evaluator(ev.condition, ev.txn)]
    /\ UNCHANGED <<transactions, rules, import_history, result, nops, fd>>

NextCond == EvaluateCondition

SpecCond == InitCond /\ [][NextCond]_vars

(* One call of a bank converter on an export with up to MaxBatch data lines *)
InitNormalize ==
    /\ transactions = <<>>
    /\ rules = <<>>
    /\ import_history = <<>>
    /\ result = NoResult
    /\ nops = 0
    /\ ev \in {[lines |-> ls, bank_format |-> b, done |-> FALSE, error |-> "none",
                rows |-> <<>>] :
                  ls \in UNION {[1..n -> RawLines] : n \in 0..MaxBatch}, b \in BankFormats}
    /\ fd = NoFilter

Normalize ==
    /\ ~ev.done
    /\ \E r \in {normalize(BankFile(ev.bank_format, ev.lines), ev.bank_format)} :
          IF r.error # "none"
          THEN ev' = [ev EXCEPT !.done = TRUE, !.error = r.error]
          ELSE \E frame \in r.frames : ev' = [ev EXCEPT !.done = TRUE, !.rows = frame]
    /\ UNCHANGED <<transactions, rules, import_history, result, nops, fd>>

NextNormalize == Normalize

SpecNormalize == InitNormalize /\ [][NextNormalize]_vars

(* One import of the file <<RowA>> into a store of many transactions *)
NoLarge == [store |-> <<>>, inserted |-> <<>>, existing_df |-> <<>>,
            new_transactions |-> <<>>, duplicate_transactions |-> <<>>,
            raised |-> FALSE]

InitLarge ==
    /\ transactions = <<>>
    /\ rules = <<>>
    /\ import_history = <<>>
    /\ result = NoResult
    /\ nops = 0
    /\ ev \in {[store0 |-> st, rules |-> rs, account_id |-> a, done |-> FALSE,
                out |-> NoLarge] :
                  st \in LargeStores, rs \in LargeRuleStores, a \in Accounts}
    /\ fd = NoFilter

ImportLarge ==
    /\ ~ev.done
    /\ \E r \in {import_transactions_counted(ev.store0, ev.rules, <<RowA>>,
                                              ev.account_id, 3)} :
          ev' = [ev EXCEPT !.done = TRUE, !.out = r]
    /\ UNCHANGED <<transactions, rules, import_history, result, nops, fd>>

NextLarge == ImportLarge

SpecLarge == InitLarge /\ [][NextLarge]_vars

(* Two import_transactions calls that run at the same time. Every database *)
(* statement of the call runs on a connection of its own, so the calls       *)
(* interleave between the snapshot query, the insert of the history record,  *)
(* the batch insert, the queries of the rule pass, its updates, and the      *)
(* update of the history record.                                             *)
Runs == {1, 2}

Other(p) == 3 - p

NoRun == [pc |-> "snapshot", file |-> <<>>, account_id |-> NullInt,
          import_df |-> <<>>, new_transactions |-> <<>>, duplicate_transactions |-> <<>>,
          import_session_id |-> NullInt, rule_list |-> <<>>, work |-> <<>>,
          raised |-> FALSE, categorized |-> NullInt, before_insert |-> FALSE,
          inserted |-> FALSE]

RaceRuleStores ==
    {<<>>, <<[RuleFood EXCEPT !.id = 1]>>, <<[RuleBadTarget EXCEPT !.id = 1]>>}

InitRace ==
    /\ transactions = <<>>
    /\ rules \in RaceRuleStores
    /\ import_history = <<>>
    /\ result = NoResult
    /\ nops = 0
    /\ ev \in [Runs -> {[NoRun EXCEPT !.file = f, !.account_id = a] :
                           f \in Files, a \in Accounts}]
    /\ fd = NoFilter

(* lines 190-196: transform, snapshot query, duplicate filter *)
Snapshot(p) ==
    /\ ev[p].pc = "snapshot"
    /\ LET import_df == transform_import_dataframe(ev[p].file, ev[p].account_id)
           existing_df == get_transactions(transactions, ev[p].account_id, BOOLEAN,
                                           QueryLimit)
           parts == filter_duplicate_transactions(import_df, existing_df)
       IN  ev' = [ev EXCEPT ![p].pc = "history",
                            ![p].import_df = import_df,
                            ![p].new_transactions = parts.new_transactions,
                            ![p].duplicate_transactions = parts.duplicate_transactions,
                            ![p].before_insert =
                                (ev[Other(p)].pc \in {"snapshot", "history", "insert"})]
    /\ UNCHANGED <<transactions, rules, import_history, result, nops, fd>>

(* lines 199-210: create_import_history *)
History(p) ==
    /\ ev[p].pc = "history"
    /\ import_history' = create_import_history(import_history,
                             [id |-> NullInt, account_id |-> ev[p].account_id,
                              total_count |-> Len(ev[p].import_df),
                              imported_count |-> Len(ev[p].new_transactions),
                              duplicate_count |-> Len(ev[p].duplicate_transactions),
                              categorized_count |-> 0,
                              file_hash |-> calculate_file_hash(ev[p].file)])
    /\ ev' = [ev EXCEPT ![p].pc = "insert",
                        ![p].import_session_id = Len(import_history) + 1]
    /\ UNCHANGED <<transactions, rules, result, nops, fd>>

(* lines 215-232: the batch insert *)
Insert(p) ==
    /\ ev[p].pc = "insert"
    /\ transactions' = transactions \o InsertRows(transactions, ev[p].new_transactions,
                                                  ev[p].import_session_id)
    /\ ev' = [ev EXCEPT ![p].pc = "rules", ![p].inserted = TRUE]
    /\ UNCHANGED <<rules, import_history, result, nops, fd>>

(* lines 224-229: the INSERT statement raises (the database rejects or      *)
(* cannot write the rows); none of the rows is stored and the exception      *)
(* ends the call, after the history record of line 210 was committed         *)
InsertFails(p) ==
    /\ ev[p].pc = "insert"
    /\ ev' = [ev EXCEPT ![p].pc = "done", ![p].raised = TRUE]
    /\ UNCHANGED <<transactions, rules, import_history, result, nops, fd>>

(* rule_service.py:118-127: the queries of the rule pass *)
LoadWork(p) ==
    /\ ev[p].pc = "rules"
    /\ ev' = [ev EXCEPT ![p].pc = "apply",
                        ![p].rule_list = get_rules(rules, TRUE),
                        ![p].work = get_transactions(transactions, NullInt, {FALSE},
                                                     QueryLimit)]
    /\ UNCHANGED <<transactions, rules, import_history, result, nops, fd>>

(* rule_service.py:120-144: the loops over the loaded rows *)
ApplyWork(p) ==
    /\ ev[p].pc = "apply"
    /\ \E r \in {IF Len(ev[p].rule_list) = 0 \/ Len(ev[p].work) = 0
                 THEN [store |-> transactions, count |-> 0, raised |-> FALSE]
                 ELSE ApplyFrom(transactions, ev[p].rule_list, ev[p].work, 1, 0)} :
          /\ transactions' = r.store
          /\ ev' = [ev EXCEPT ![p].pc = IF r.raised THEN "done" ELSE "update",
                              ![p].raised = r.raised,
                              ![p].categorized = IF r.raised THEN NullInt ELSE r.count]
    /\ UNCHANGED <<rules, import_history, result, nops, fd>>

(* lines 239-244: UPDATE import_history SET categorized_count *)
UpdateHistory(p) ==
    /\ ev[p].pc = "update"
    /\ import_history' = [import_history EXCEPT
                             ![ev[p].import_session_id].categorized_count =
                                 ev[p].categorized]
    /\ ev' = [ev EXCEPT ![p].pc = "done"]
    /\ UNCHANGED <<transactions, rules, result, nops, fd>>

NextRace ==
    \E p \in Runs :
       \/ Snapshot(p)
       \/ History(p)
       \/ Insert(p)
       \/ InsertFails(p)
       \/ LoadWork(p)
       \/ ApplyWork(p)
       \/ UpdateHistory(p)

SpecRace == InitRace /\ [][NextRace]_vars

(* add_imported_ids on a file and on a copy with the rows in another order, *)
(* and an import of the copy after an import of the file into an empty       *)
(* account                                                                   *)
NoIds == [ids |-> <<>>, ids_permuted |-> <<>>, first_imported |-> 0,
          second_imported |-> 0, second_duplicates |-> 0, stored |-> 0]

InitIds ==
    /\ transactions = <<>>
    /\ rules = <<>>
    /\ import_history = <<>>
    /\ result = NoResult
    /\ nops = 0
    /\ ev \in {[file |-> f, perm |-> q, done |-> FALSE, out |-> NoIds] :
                  f \in IdFiles, q \in UNION {Perms(n) : n \in 0..MaxFileRows}}
    /\ Len(ev.file) = Len(ev.perm)
    /\ fd = NoFilter

AssignIds ==
    /\ ~ev.done
    /\ \E copy \in {Permuted(ev.file, ev.perm)} :
       \E r1 \in {import_transactions(<<>>, <<>>, <<>>, ev.file, 1)} :
       \E r2 \in {import_transactions(r1.store, <<>>, r1.history, copy, 1)} :
          ev' = [ev EXCEPT !.done = TRUE,
                           !.out = [ids |-> add_imported_ids(ev.file),
                                    ids_permuted |-> add_imported_ids(copy),
                                    first_imported |-> r1.imported,
                                    second_imported |-> r2.imported,
                                    second_duplicates |-> r2.duplicates,
                                    stored |-> Len(r2.store)]]
    /\ UNCHANGED <<transactions, rules, import_history, result, nops, fd>>

NextIds == AssignIds

SpecIds == InitIds /\ [][NextIds]_vars

(* One filter_duplicate_transactions call on arbitrary frames *)
InitFilter ==
    /\ transactions = <<>>
    /\ rules = <<>>
    /\ import_history = <<>>
    /\ result = NoResult
    /\ nops = 0
    /\ ev = NoEval
    /\ fd \in {[NoFilter EXCEPT !.import_df = i, !.existing_df = e] :
                  i \in ImportFrames, e \in ExistingFrames}

Filter ==
    /\ ~fd.done
    /\ LET parts == filter_duplicate_transactions(fd.import_df, fd.existing_df)
       IN  fd' = [fd EXCEPT !.done = TRUE,
                            !.new_transactions = parts.new_transactions,
                            !.duplicate_transactions = parts.duplicate_transactions]
    /\ UNCHANGED <<transactions, rules, import_history, result, nops, ev>>

NextFilter == Filter

SpecFilter == InitFilter /\ [][NextFilter]_vars

----------------------------------------------------------------------------
(* Properties of the import pipeline *)

IsImportStep == nops' = nops + 1 /\ result'.op = "import"

IsRunStep ==
    nops' = nops + 1 /\ result'.op \in {"import", "apply"} /\ result'.error = "none"

(* no two rows of the file agree in date, amount, payee and notes *)
NoExactDuplicateRows(file) ==
    \A i, j \in 1..Len(file) : i # j => ~SameGroup(file[i], file[j])

CandidateIds(r) == {r.import_df[i].imported_id : i \in 1..Len(r.import_df)}

C2_UniqueImportedIdPerAccount ==
    \A i, j \in 1..Len(transactions) :
        (/\ i # j
         /\ transactions[i].account_id = transactions[j].account_id
         /\ transactions[i].imported_id # Null)
        => transactions[i].imported_id # transactions[j].imported_id

(* C3: occurrence disambiguation. Every row of an imported file carries    *)
(* the id made from its fields and the number of identical rows before it,  *)
(* rows identical in date, amount, payee and notes get different ids, and   *)
(* the next import of the same file yields the same ids row by row.         *)
C3_OccurrenceDisambiguation ==
    [][IsImportStep
       => (LET df == result'.import_df
           IN  /\ Len(df) = Len(result'.file)
               /\ \A i \in 1..Len(df) :
                     LET earlier == {j \in 1..(i - 1) : SameGroup(result'.file[j], result'.file[i])}
                     IN  df[i].imported_id =
                            create_imported_id(df[i].date, df[i].amount, df[i].payee,
                                               NotesOrEmpty(df[i].notes), Cardinality(earlier))
               /\ \A i, j \in 1..Len(df) :
                     (i # j /\ SameGroup(result'.file[i], result'.file[j]))
                        => df[i].imported_id # df[j].imported_id
               /\ (result.op = "import" /\ result.file = result'.file)
                     => \A i \in 1..Len(df) :
                           df[i].imported_id = result.import_df[i].imported_id)]_vars

(* the file with the same row twice was imported twice in a row; its two   *)
(* ids differ and are the ids stored by the first run, in row order         *)
C3_Witness ==
    /\ nops = 2
    /\ Len(import_history) = 2
    /\ result.op = "import"
    /\ Len(result.file) = 2
    /\ SameGroup(result.file[1], result.file[2])
    /\ import_history[1].file_hash = calculate_file_hash(result.file)
    /\ import_history[1].account_id = result.account_id
    /\ result.import_df[1].imported_id # result.import_df[2].imported_id
    /\ Len(transactions) = 2
    /\ transactions[1].imported_id = result.import_df[1].imported_id
    /\ transactions[2].imported_id = result.import_df[2].imported_id

ExistingIds(existing_df) ==
    {existing_df[i].imported_id : i \in 1..Len(existing_df)} \ {Null}

(* C4: duplicate partition. A candidate is in the duplicates part iff its  *)
(* imported_id is among the existing ids and otherwise in the new part,     *)
(* both parts keeping the batch order; with no existing rows nothing is a   *)
(* duplicate, and when every candidate id exists all are duplicates.        *)
C4_DuplicatePartition ==
    fd.done =>
        LET exists_(c) == c.imported_id \in ExistingIds(fd.existing_df)
            fresh(c) == c.imported_id \notin ExistingIds(fd.existing_df)
        IN  /\ fd.duplicate_transactions = SelectSeq(fd.import_df, exists_)
            /\ fd.new_transactions = SelectSeq(fd.import_df, fresh)
            /\ Len(fd.existing_df) = 0 => fd.duplicate_transactions = <<>>
            /\ (\A i \in 1..Len(fd.import_df) : exists_(fd.import_df[i]))
                  => (fd.new_transactions = <<>> /\ fd.duplicate_transactions = fd.import_df)

(* a batch split into a new and a duplicate row against existing rows, one *)
(* of which has no imported_id                                              *)
C4_Witness ==
    /\ fd.done
    /\ Len(fd.import_df) = 2
    /\ Len(fd.new_transactions) = 1
    /\ Len(fd.duplicate_transactions) = 1
    /\ \E i \in 1..Len(fd.existing_df) : fd.existing_df[i].imported_id = Null

----------------------------------------------------------------------------
(* Properties of the rule engine *)

CondHolds(rule, transaction, i) ==
    create_condition_evaluator(rule.conditions[i], transaction)

(* a rule matches: it has a condition, and any / every condition holds *)
RuleMatches(rule, transaction) ==
    /\ Len(rule.conditions) > 0
    /\ rule.match_type = "any"
          => \E i \in 1..Len(rule.conditions) : CondHolds(rule, transaction, i)
    /\ rule.match_type # "any"
          => \A i \in 1..Len(rule.conditions) : CondHolds(rule, transaction, i)

(* the active matching rule that precedes every other active matching rule *)
(* in the order priority descending, id ascending                            *)
Winners(transaction, rule_store) ==
    {r \in Range(rule_store) :
        /\ r.is_active
        /\ RuleMatches(r, transaction)
        /\ \A q \in Range(rule_store) :
              (q.is_active /\ RuleMatches(q, transaction) /\ q # r)
                 => \/ r.priority > q.priority
                    \/ (r.priority = q.priority /\ r.id < q.id)}

ActionEffect(t, action) ==
    IF action.action_type = "set_category"
    THEN [t EXCEPT !.category = action.value, !.is_categorized = TRUE]
    ELSE IF action.action_type = "mark_transfer"
    THEN [t EXCEPT !.is_transfer = TRUE,
                   !.transfer_account_id = ParseInt(action.value).val]
    ELSE t

ActionValid(action) ==
    action.action_type = "mark_transfer" => ParseInt(action.value).ok

(* the row after the first k actions of the list *)
RECURSIVE AfterActions(_, _, _)
AfterActions(t, actions, k) ==
    IF k = 0 THEN t
    ELSE ActionEffect(AfterActions(t, actions, k - 1), actions[k])

(* the row after every action of the list whose value is valid *)
RECURSIVE AfterValidActions(_, _, _)
AfterValidActions(t, actions, k) ==
    IF k = 0 THEN t
    ELSE IF ActionValid(actions[k])
         THEN ActionEffect(AfterValidActions(t, actions, k - 1), actions[k])
         ELSE AfterValidActions(t, actions, k - 1)

(* row i as the run of this step loaded it: the stored row, or for a row   *)
(* inserted by this step the row as inserted                                *)
LoadedRow(i) ==
    IF i <= Len(transactions) THEN transactions[i]
    ELSE [transactions'[i] EXCEPT !.category = Null, !.is_categorized = FALSE,
                                  !.is_transfer = FALSE,
                                  !.transfer_account_id = NullInt]

ReturnedCount == IF result'.op = "import" THEN result'.categorized ELSE result'.count

(* C5: first match wins. In a run of the rule batch, a transaction that    *)
(* was uncategorized when loaded is changed by nothing but the actions, in  *)
(* order, of the first active rule that matches it in the order priority    *)
(* descending, id ascending (all of them when the run returns normally),    *)
(* and is left as it was when no active rule matches it.                    *)
C5_FirstMatchWins ==
    [][IsRunStep
       => \A i \in 1..Len(transactions') :
             LET t0 == LoadedRow(i)
                 w == Winners(t0, rules)
             IN  ~t0.is_categorized
                    => /\ w = {} => transactions'[i] = t0
                       /\ \A r \in w :
                             \E k \in 0..Len(r.actions) :
                                /\ \A j \in 1..k : ActionValid(r.actions[j])
                                /\ transactions'[i] = AfterActions(t0, r.actions, k)
                                /\ ~result'.raised => k = Len(r.actions)]_vars

(* a transaction matched by two active rules holds the category of the one *)
(* with the higher priority, and another holds the category of the other    *)
C5_Witness ==
    /\ result.op \in {"import", "apply"}
    /\ ~result.raised
    /\ \E t \in Range(transactions), r1, r2 \in Range(rules) :
          /\ r1.is_active /\ r2.is_active
          /\ r1.priority > r2.priority
          /\ RuleMatches(r1, t) /\ RuleMatches(r2, t)
          /\ r1.actions # r2.actions
          /\ t = AfterActions([t EXCEPT !.category = Null, !.is_categorized = FALSE],
                              r1.actions, Len(r1.actions))

(* C6: AND versus OR. For a rule with at least one condition,              *)
(* evaluate_rule is true under match_type "all" iff every condition holds   *)
(* on the transaction, and under "any" iff at least one does.                *)
C6_AllVersusAny ==
    (ev.done /\ Len(ev.rule.conditions) >= 1)
       => /\ ev.rule.match_type = "all"
             => (ev.res <=> \A i \in 1..Len(ev.rule.conditions) :
                               CondHolds(ev.rule, ev.txn, i))
          /\ ev.rule.match_type = "any"
             => (ev.res <=> \E i \in 1..Len(ev.rule.conditions) :
                               CondHolds(ev.rule, ev.txn, i))

(* payee contains "aldi" holds, amount < "-50" fails on amount -10: no     *)
(* match under "all"                                                        *)
C6_Witness ==
    /\ ev.done
    /\ ev.rule.match_type = "all"
    /\ ev.rule.conditions = <<Cond("payee", "contains", <<"a", "l", "d", "i">>),
                              Cond("amount", "<", <<"-", "5", "0">>)>>
    /\ ev.txn.payee = <<"A", "l", "d", "i">>
    /\ ev.txn.amount = -10
    /\ ev.res = FALSE

EmptyRules == {NewRule(10, TRUE, mt, <<>>, <<Act("set_category", <<"X">>)>>) :
                  mt \in {"all", "any"}}

OnlyEmptyRulesActive ==
    \A r \in Range(rules) : r.is_active => Len(r.conditions) = 0

(* C7: empty-conditions guard. A rule without conditions matches no stored *)
(* transaction under either match_type, in evaluate_rule, test_rule and     *)
(* count_matching_transactions; and while every active stored rule is       *)
(* without conditions the batch has changed no transaction and counts 0.    *)
C7_EmptyConditionsNeverMatch ==
    /\ \A r \in EmptyRules \cup {q \in Range(rules) : Len(q.conditions) = 0} :
          /\ \A t \in Range(transactions) : ~evaluate_rule(r, t)
          /\ test_rule(transactions, r, TestRuleLimit) = <<>>
          /\ count_matching_transactions(transactions, r) = 0
    /\ OnlyEmptyRulesActive
          => /\ \A t \in Range(transactions) :
                   IF t.imported_id = Null
                   THEN \E m \in ManualTxns : t = [m EXCEPT !.id = t.id]
                   ELSE /\ ~t.is_categorized /\ t.category = Null
                        /\ ~t.is_transfer /\ t.transfer_account_id = NullInt
             /\ (result.op \in {"import", "apply"} /\ result.error = "none")
                   => (~result.raised /\ result.categorized = 0 /\ result.count = 0)

(* a batch ran over stored uncategorized transactions with an active rule  *)
(* that has no conditions                                                   *)
C7_Witness ==
    /\ \E r \in Range(rules) : r.is_active /\ Len(r.conditions) = 0
    /\ OnlyEmptyRulesActive
    /\ result.op \in {"import", "apply"}
    /\ result.error = "none"
    /\ \E t \in Range(transactions) : ~t.is_categorized

(* C8: the batch writes only to uncategorized transactions. A transaction  *)
(* that is categorized when a run loads its work list is the same in every  *)
(* field after the run.                                                     *)
C8_CategorizedUntouched ==
    [][IsRunStep
       => /\ Len(transactions') >= Len(transactions)
          /\ \A i \in 1..Len(transactions) :
                transactions[i].is_categorized => transactions'[i] = transactions[i]]_vars

(* a run has passed over a transaction that was categorized before it and  *)
(* that an active rule with another category matches                        *)
C8_Witness ==
    /\ nops = 3
    /\ result.op = "apply"
    /\ ~result.raised
    /\ \E t \in Range(transactions), r \in Range(rules) :
          /\ t.imported_id = Null
          /\ t.is_categorized
          /\ r.is_active
          /\ RuleMatches(r, t)
          /\ \E k \in 1..Len(r.actions) :
                r.actions[k].action_type = "set_category" /\ r.actions[k].value # t.category

(* C9: the value returned by a run equals the number of transactions whose *)
(* is_categorized went from false to true in the run.                       *)
C9_CountIsCategorized ==
    [][(IsRunStep /\ ~result'.raised)
       => ReturnedCount =
             Cardinality({i \in 1..Len(transactions') :
                             ~LoadedRow(i).is_categorized /\ transactions'[i].is_categorized})]_vars

(* C10: an invalid transfer target is isolated. A run returns normally     *)
(* whatever the action values are, and every transaction that was           *)
(* uncategorized when loaded and has a first matching rule ends with all    *)
(* the valid actions of that rule applied, the invalid ones skipped.        *)
C10_InvalidTargetIsolated ==
    [][IsRunStep
       => /\ ~result'.raised
          /\ \A i \in 1..Len(transactions') :
                LET t0 == LoadedRow(i)
                IN  ~t0.is_categorized
                       => \A r \in Winners(t0, rules) :
                             transactions'[i] = AfterValidActions(t0, r.actions, Len(r.actions))]_vars

----------------------------------------------------------------------------
(* Properties of the condition evaluator *)

(* the number a text of the input pool stands for, in tenths; ok = FALSE   *)
(* for a text that is no number                                             *)
TenthsOf(text) ==
    CASE text = <<"-", "1", "0", "0">> -> [ok |-> TRUE, tenths |-> -1000]
      [] text = <<"-", "5", "0", ".", "5">> -> [ok |-> TRUE, tenths |-> -505]
      [] text = <<"-", "2", "0", "0">> -> [ok |-> TRUE, tenths |-> -2000]
      [] text = <<"7">> -> [ok |-> TRUE, tenths |-> 70]
      [] OTHER -> [ok |-> FALSE, tenths |-> 0]

(* the field of the transaction as a number in tenths *)
FieldTenths(field, transaction) ==
    CASE field = "amount" -> [ok |-> TRUE, tenths |-> 10 * transaction.amount]
      [] field = "payee" -> TenthsOf(transaction.payee)
      [] field = "notes" -> IF transaction.notes = Null THEN [ok |-> FALSE, tenths |-> 0]
                            ELSE TenthsOf(transaction.notes)
      [] OTHER -> [ok |-> FALSE, tenths |-> 0]

(* C11: the condition evaluator is total. For every field, operator and    *)
(* value text it returns a boolean; for < and > on a known field it returns *)
(* the numeric comparison of field and value when both are numbers and      *)
(* false when either is not; an unknown field or operator gives false.      *)
C11_EvaluatorTotal ==
    ev.done =>
        LET c == ev.condition
            x == FieldTenths(c.field, ev.txn)
            y == TenthsOf(c.value)
        IN  /\ ev.res \in BOOLEAN
            /\ (c.field \in {"payee", "amount", "notes"} /\ c.operator = "<")
                  => (ev.res <=> (x.ok /\ y.ok /\ x.tenths < y.tenths))
            /\ (c.field \in {"payee", "amount", "notes"} /\ c.operator = ">")
                  => (ev.res <=> (x.ok /\ y.ok /\ x.tenths > y.tenths))
            /\ (c.field = "iban" \/ c.operator = "!=") => ~ev.res

(* amount -150 < "-100" is true *)
C11_Witness ==
    /\ ev.done
    /\ ev.condition = Cond("amount", "<", <<"-", "1", "0", "0">>)
    /\ ev.txn.amount = -150
    /\ ev.res = TRUE

----------------------------------------------------------------------------
(* Preview and application of a rule *)

(* ids of the rows test_rule returns for the rule on the store before the step *)
TestIds(rule) ==
    LET df == test_rule(transactions, rule, TestRuleLimit)
    IN  {df[j].id : j \in 1..Len(df)}

(* an active stored rule that no other active rule precedes in the order   *)
(* priority descending, id ascending                                        *)
Uncontested(rule) ==
    /\ rule.is_active
    /\ \A q \in Range(rules) :
          (q.is_active /\ q # rule)
             => (rule.priority > q.priority
                 \/ (rule.priority = q.priority /\ rule.id < q.id))

HasSetCategory(rule) ==
    \E k \in 1..Len(rule.actions) : rule.actions[k].action_type = "set_category"

(* rows that went from uncategorized to categorized in the step *)
CategorizedInStep ==
    {i \in 1..Len(transactions) :
        ~transactions[i].is_categorized /\ transactions'[i].is_categorized}

IsApplyStep == nops' = nops + 1 /\ result'.op = "apply"

----------------------------------------------------------------------------
(* Rule from an example transaction *)

(* C13: rule from example. create_rule_from_transaction on a transaction   *)
(* that has a category returns normally, stores exactly one new rule whose  *)
(* only condition is payee contains the transaction's payee and whose only  *)
(* action is set_category with its category, and returns the rule's id.     *)
C13_RuleFromExample ==
    [][(/\ nops' = nops + 1
        /\ result'.op = "rule_from_transaction"
        /\ \E t \in Range(transactions) :
              /\ t.id = result'.transaction_id
              /\ t.category # Null /\ t.category # <<>>)
       => (/\ ~result'.raised
           /\ Len(rules') = Len(rules) + 1
           /\ SubSeq(rules', 1, Len(rules)) = rules
           /\ LET t == transactions[result'.transaction_id]
                   new == rules'[Len(rules')]
               IN  /\ new.conditions = <<Cond("payee", "contains", t.payee)>>
                   /\ new.actions = <<Act("set_category", t.category)>>
                   /\ result'.rule_id = new.id)]_vars

----------------------------------------------------------------------------
(* Properties of the normalizer *)

(* the date a text of the input pool stands for; ok = FALSE for a text of   *)
(* the D.M.YYYY shape that is no calendar date                              *)
DateOfText(text) ==
    CASE text = <<"0", "1", ".", "0", "1", ".", "2", "0", "2", "4">> -> [ok |-> TRUE, date |-> 1]
      [] text = <<"0", "2", ".", "0", "1", ".", "2", "0", "2", "4">> -> [ok |-> TRUE, date |-> 2]
      [] OTHER -> [ok |-> FALSE, date |-> 0]

(* the amount a text of the input pool stands for *)
AmountOfText(text) ==
    CASE text = <<"-", "1", "0", ",", "0", "0">> -> [ok |-> TRUE, amount |-> -10]
      [] text = <<"1", ".", "5", "0", "0", ",", "0", "0">> -> [ok |-> TRUE, amount |-> 1500]
      [] OTHER -> [ok |-> FALSE, amount |-> 0]

(* the data lines whose date text has the D.M.YYYY shape *)
HasShape(line) ==
    line.date \in {<<"0", "1", ".", "0", "1", ".", "2", "0", "2", "4">>,
                   <<"0", "2", ".", "0", "1", ".", "2", "0", "2", "4">>,
                   <<"3", "1", ".", "0", "2", ".", "2", "0", "2", "4">>}

(* the lines that pass the two filters of the converters *)
Candidate(line) == HasShape(line) /\ line.amount # Null

Wellformed(line) == DateOfText(line.date).ok /\ AmountOfText(line.amount).ok

(* how often a row occurs in a sequence *)
CountIn(seq, x) == Cardinality({i \in 1..Len(seq) : seq[i] = x})

(* C19: normalizer date filter. A data line whose date text does not have  *)
(* the D.M.YYYY shape raises no error (the converter returns whenever the   *)
(* lines that have the shape and an amount convert), is absent from the     *)
(* output and is not counted: the output has one row for each line that     *)
(* has the shape and an amount, and none for the others.                    *)
C19_DateFilterDrops ==
    ev.done =>
        LET kept == SelectSeq(ev.lines, Candidate)
        IN  /\ (\A i \in 1..Len(kept) : Wellformed(kept[i])) => ev.error = "none"
            /\ ev.error = "none"
                  => /\ Len(ev.rows) = Len(kept)
                     /\ \A i \in 1..Len(ev.rows) :
                           \E j \in 1..Len(kept) :
                              /\ ev.rows[i].date = DateOfText(kept[j].date).date
                              /\ ev.rows[i].amount = AmountOfText(kept[j].amount).amount
                              /\ CountIn(ev.rows, ev.rows[i])
                                    = Cardinality({k \in 1..Len(kept) :
                                          /\ kept[k].date = kept[j].date
                                          /\ kept[k].amount = kept[j].amount})

(* an export with a dated line and a "Kontostand" line converted to one row *)
C19_Witness ==
    /\ ev.done
    /\ ev.error = "none"
    /\ Len(ev.lines) = 2
    /\ \E i \in 1..2 : ev.lines[i].date = <<"K", "o", "n", "t", "o", "s", "t", "a", "n", "d">>
                       /\ ev.lines[i].amount # Null
    /\ Len(ev.rows) = 1

(* C20: malformed rows are rejected individually. When a line that passed  *)
(* the date filter has a date or amount that does not convert, the          *)
(* converter still returns the rows of the lines that do convert, and       *)
(* raises only when none of them converts.                                  *)
C20_MalformedRowsRejectedIndividually ==
    ev.done =>
        LET kept == SelectSeq(ev.lines, Candidate)
            good == SelectSeq(kept, Wellformed)
        IN  (Len(good) > 0)
               => /\ ev.error = "none"
                  /\ Len(ev.rows) = Len(good)

----------------------------------------------------------------------------
(* Properties of the failure paths of the import and of the preview *)

(* C14: no partial writes on early failure. When the parse step or the      *)
(* imported-id assignment of an import fails, the call raises, and the      *)
(* transaction store and the import history are as they were before it.     *)
C14_NoPartialWrites ==
    [][(IsImportStep /\ result'.error # "none")
          => /\ result'.raised
             /\ transactions' = transactions
             /\ import_history' = import_history]_vars

(* an import failed in its parse step on a store that has transactions and  *)
(* a history                                                                *)
C14_Witness ==
    /\ result.op = "import"
    /\ result.error # "none"
    /\ Len(transactions) > 0
    /\ Len(import_history) > 0

(* C15: partial-failure state. When the rule pass raises during an import,  *)
(* every row of that run's batch insert is in the store after the call: the  *)
(* store has grown by the new transactions, each stored with the run's       *)
(* import session.                                                          *)
C15_InsertedRowsRemain ==
    [][(IsImportStep /\ result'.error = "none" /\ result'.raised)
          => /\ Len(transactions') = Len(transactions) + Len(result'.new_transactions)
             /\ \A i \in 1..Len(result'.new_transactions) :
                   LET t == transactions'[Len(transactions) + i]
                       n == result'.new_transactions[i]
                   IN  /\ t.imported_id = n.imported_id
                       /\ t.account_id = n.account_id
                       /\ t.date = n.date /\ t.amount = n.amount /\ t.payee = n.payee
                       /\ t.import_session_id = Len(import_history) + 1]_vars

(* the rule pass of an import that inserted rows has raised *)
C15_Witness ==
    /\ result.op = "import"
    /\ result.error = "none"
    /\ result.raised
    /\ Len(result.new_transactions) > 0
    /\ \E t \in Range(transactions) : t.import_session_id = Len(import_history)

IsPreviewStep == nops' = nops + 1 /\ result'.op = "preview"

(* C16: preview_import never touches storage. Whether the call returns or   *)
(* raises, the transaction store, the rule store and the import history      *)
(* are the same after it as before it.                                       *)
C16_PreviewTouchesNothing ==
    [][IsPreviewStep
          => /\ transactions' = transactions
             /\ rules' = rules
             /\ import_history' = import_history]_vars

(* a preview returned rows that an import of the same file would insert:     *)
(* the store holds none of them                                              *)
C16_Witness ==
    /\ result.op = "preview"
    /\ ~result.raised
    /\ Len(result.preview) > 0
    /\ \A i \in 1..Len(result.preview) :
          \A t \in Range(transactions) :
             ~(t.imported_id = result.preview[i].imported_id
               /\ t.account_id = result.preview[i].account_id)

(* C17: preview diagnostics. When the parse step fails inside preview_import *)
(* and the file is readable, the error that reaches the caller has the first *)
(* raw lines of the file.                                                    *)
C17_PreviewDiagnostics ==
    (result.op = "preview" /\ result.raised /\ result.readable)
        => result.first_lines # <<>>

(* the rows of a run's import session that are categorized after the run *)
CategorizedOfSession(store, import_session_id) ==
    {i \in 1..Len(store) :
        store[i].import_session_id = import_session_id /\ store[i].is_categorized}

(* C18: the categorized statistic of an import that returns, and the         *)
(* categorized_count of its history record, is the number of rows inserted   *)
(* by the run that its rule pass categorized; it does not exceed imported.   *)
C18_CategorizedOfNewRows ==
    [][(IsImportStep /\ result'.error = "none" /\ ~result'.raised)
          => /\ result'.categorized
                   = Cardinality(CategorizedOfSession(transactions',
                                                      result'.import_session_id))
             /\ import_history'[result'.import_session_id].categorized_count
                   = result'.categorized
             /\ result'.categorized <= result'.imported]_vars

----------------------------------------------------------------------------
(* Properties of the queries behind the import *)

(* the stored transactions of an account with an imported_id *)
StoredCount(store, account_id, imported_id) ==
    LET hit(t) == t.account_id = account_id /\ t.imported_id = imported_id
        hits == SelectSeq(store, hit)
    IN  IF Len(hits) = 0 THEN 0
        ELSE IF Len(hits) = 1 THEN hits[1].n
        ELSE hits[1].n + hits[2].n

(* C21: the existing ids handed to the duplicate filter are all the          *)
(* imported_ids stored for the target account, whatever the number of        *)
(* transactions stored for it, and a candidate whose imported_id is stored   *)
(* for the account is not inserted again.                                    *)
C21_SnapshotIsComplete ==
    ev.done =>
        /\ \A t \in Range(ev.store0) :
              t.account_id = ev.account_id
                 => \E e \in Range(ev.out.existing_df) : e.imported_id = t.imported_id
        /\ \A i \in 1..Len(ev.out.new_transactions) :
              StoredCount(ev.store0, ev.account_id,
                          ev.out.new_transactions[i].imported_id) = 0

(* C22: the rule pass of an import covers the whole store. After the import  *)
(* no transaction, of any account and of any import, is uncategorized while  *)
(* an active rule with a set_category action is the first to match it.       *)
C22_RulePassCoversStore ==
    (ev.done /\ ~ev.out.raised) =>
        \A t \in Range(ev.out.store) :
           (~t.is_categorized /\ t.n > 0)
              => FirstMatch(get_rules(ev.rules, TRUE), t, 1) = 0

(* the existing rows have a null or an empty imported_id *)
CorruptSnapshot(existing_df) ==
    \E i \in 1..Len(existing_df) : existing_df[i].imported_id \in {Null, <<>>}

(* C23 as stated: corrupt snapshot fails loudly. Duplicate filtering does    *)
(* not return when the existing rows contain a null or empty imported_id.    *)
C23_CorruptSnapshotRaises ==
    fd.done => ~CorruptSnapshot(fd.existing_df)

(* C23, amended: when the existing rows contain a null or empty imported_id  *)
(* duplicate filtering returns; rows with a null id are left out, an empty   *)
(* id is an id like any other, and the candidates are split against the ids  *)
(* of the remaining rows.                                                    *)
C23_NullIdsAreLeftOut ==
    (fd.done /\ CorruptSnapshot(fd.existing_df)) =>
        LET remaining == {i \in 1..Len(fd.existing_df) : fd.existing_df[i].imported_id # Null}
            known(c) == \E i \in remaining : fd.existing_df[i].imported_id = c.imported_id
            unknown(c) == ~known(c)
        IN  /\ fd.duplicate_transactions = SelectSeq(fd.import_df, known)
            /\ fd.new_transactions = SelectSeq(fd.import_df, unknown)
            /\ Len(fd.new_transactions) + Len(fd.duplicate_transactions) = Len(fd.import_df)

(* the filter returned a duplicate whose id stands in the existing rows      *)
(* after a row without id                                                    *)
C23_Witness ==
    /\ fd.done
    /\ Len(fd.existing_df) = 2
    /\ fd.existing_df[1].imported_id = Null
    /\ Len(fd.duplicate_transactions) > 0
    /\ fd.duplicate_transactions[1].imported_id = fd.existing_df[2].imported_id

----------------------------------------------------------------------------
(* Properties of imports that run at the same time *)

(* the stored transactions of an account that carry an imported_id *)
StoredWith(account_id, imported_id) ==
    {i \in 1..Len(transactions) :
        /\ transactions[i].account_id = account_id
        /\ transactions[i].imported_id = imported_id}

IdsOf(df) == {df[i].imported_id : i \in 1..Len(df)}

BothInserted == \A p \in Runs : ev[p].inserted

(* C24: stale-snapshot race. When two imports into the same account both    *)
(* take their snapshot before either batch insert, both insert the rows the  *)
(* two files share and the store holds two transactions of the account with  *)
(* the same imported_id; when the two imports go to different accounts the   *)
(* store never holds two transactions of one account with the same           *)
(* imported_id.                                                              *)
C24_StaleSnapshotRace ==
    /\ (/\ BothInserted
        /\ ev[1].account_id = ev[2].account_id
        /\ ev[1].before_insert /\ ev[2].before_insert)
          => \A id \in IdsOf(ev[1].import_df) \cap IdsOf(ev[2].import_df) :
                /\ \A p \in Runs :
                      \E i \in 1..Len(ev[p].new_transactions) :
                         ev[p].new_transactions[i].imported_id = id
                /\ Cardinality(StoredWith(ev[1].account_id, id)) >= 2
    /\ ev[1].account_id # ev[2].account_id
          => \A a \in Accounts : \A i \in 1..Len(transactions) :
                transactions[i].account_id = a
                   => Cardinality(StoredWith(a, transactions[i].imported_id)) = 1

----------------------------------------------------------------------------
(* Properties of the import statistics and of the imported ids *)

(* C25: the statistics are a partition count. Every result an import        *)
(* returns has total = imported + duplicates with total the number of        *)
(* normalized rows of the file, and the new part and the duplicate part      *)
(* have no candidate in common and together hold every candidate once.       *)
C25_StatisticsPartition ==
    [][(IsImportStep /\ result'.error = "none" /\ ~result'.raised)
          => LET new == result'.new_transactions
                 dup == result'.duplicate_transactions
             IN  /\ result'.total = Len(result'.file)
                 /\ result'.total = result'.imported + result'.duplicates
                 /\ result'.imported = Len(new)
                 /\ result'.duplicates = Len(dup)
                 /\ Range(new) \cap Range(dup) = {}
                 /\ \A i \in 1..Len(result'.import_df) :
                       Cardinality({j \in 1..Len(new) : new[j] = result'.import_df[i]})
                       + Cardinality({j \in 1..Len(dup) : dup[j] = result'.import_df[i]})
                       = 1]_vars

(* an import returned with a new and a duplicate row *)
C25_Witness ==
    /\ result.op = "import"
    /\ result.error = "none"
    /\ ~result.raised
    /\ result.total = 2
    /\ result.imported = 1
    /\ result.duplicates = 1

C28_DistinctRowsDistinctIds ==
    ev.done =>
        \A i, j \in 1..Len(ev.file) :
           ~SameGroup(ev.file[i], ev.file[j])
              => ev.out.ids[i].imported_id # ev.out.ids[j].imported_id

(* rows that agree in date, amount, payee and notes, a missing note being   *)
(* the empty note it is stored as                                            *)
SameTuple(r1, r2) ==
    /\ r1.date = r2.date
    /\ r1.amount = r2.amount
    /\ r1.payee = r2.payee
    /\ NotesOrEmpty(r1.notes) = NotesOrEmpty(r2.notes)

(* the files imported into an account, from its history records *)
ImportedFiles(account_id) ==
    {import_history[k].file_hash : k \in {i \in 1..Len(import_history) :
                                             import_history[i].account_id = account_id}}

TimesIn(file, row) == Cardinality({i \in 1..Len(file) : SameTuple(file[i], row)})

TimesStored(account_id, row) ==
    Cardinality({i \in 1..Len(transactions) :
                    /\ transactions[i].account_id = account_id
                    /\ SameTuple(transactions[i], row)})

(* C27: overlapping imports keep the per-file maximum. In an account that    *)
(* holds imported transactions only, after any sequence of imports the       *)
(* number of stored transactions with a given date, amount, payee and notes  *)
(* is the largest number of times the tuple occurs in one imported file.     *)
C27_PerFileMaximum ==
    \A a \in Accounts :
       (\A t \in Range(transactions) : t.account_id = a => t.imported_id # Null)
          => \A f \in ImportedFiles(a) : \A i \in 1..Len(f) :
                \E g \in ImportedFiles(a) :
                   /\ TimesStored(a, f[i]) = TimesIn(g, f[i])
                   /\ \A h \in ImportedFiles(a) : TimesIn(h, f[i]) <= TimesIn(g, f[i])

----------------------------------------------------------------------------
(* Properties of the rule batch and of the history on large stores and on   *)
(* failing statements                                                        *)

(* C29: the rule batch reaches a fixpoint. After the batch has returned no   *)
(* stored transaction is uncategorized while it matches an active rule that  *)
(* has a set_category action.                                                *)
C29_BatchFixpoint ==
    (ev.done /\ ~ev.out.raised) =>
        \A t \in Range(ev.out.store) :
           (t.n > 0 /\ ~t.is_categorized)
              => \A r \in Range(ev.rules) :
                    (r.is_active /\ HasSetCategory(r)) => ~evaluate_rule(r, t)

(* C30: the import history agrees with the store. When the imports have    *)
(* ended, also those whose batch insert or rule pass failed, the             *)
(* imported_count of every history record is the number of stored            *)
(* transactions whose import_session_id is the id of the record.             *)
C30_HistoryAgreesWithStore ==
    (\A p \in Runs : ev[p].pc = "done")
        => \A k \in 1..Len(import_history) :
              import_history[k].imported_count
                 = Cardinality({i \in 1..Len(transactions) :
                                   transactions[i].import_session_id = import_history[k].id})

====
